---- MODULE Spec2Model ----
(***************************************************************************)
(* Clinical-trial site selection demo: the OAuth delegation model and the  *)
(* MCP tool-invocation contract.                                           *)
(*                                                                         *)
(* The module holds one state machine per component:                       *)
(*   SpecStore   the token store (SessionOAuthProvider)                    *)
(*   SpecFlow    the flow selector of the architecture view                *)
(*   SpecClient  the tool invocation client (MCPClientManager)             *)
(*   SpecQuery   the callers that fetch with a bearer token (handleQuery,  *)
(*               fetchLogs)                                                *)
(*   SpecTools   the tools/list and tools/call handlers of the two servers *)
(*   SpecServer  the tool servers' POST /mcp pipeline                      *)
(* JavaScript values are records tagged by their type in field t.          *)
(***************************************************************************)
EXTENDS Integers, Sequences, FiniteSets, TLC

VARIABLES
    \* SessionOAuthProvider
    tokens,             \* this._tokens
    clientInformation,  \* this._clientInformation
    storeOps,           \* history: the operations applied to the store, in order
    lastGet             \* outcome of the latest getToken() call

storeVars == <<tokens, clientInformation, storeOps, lastGet>>

VARIABLES
    \* ArchitectView / ArchitectureDiagram
    activeFlow,         \* useState(FlowType.DIRECT)
    offset,             \* animation state, advanced by the 50 ms interval
    tooltip             \* null, or the token tooltip shown

flowVars == <<activeFlow, offset, tooltip>>

VARIABLES
    \* the signed-in session (AuthGuard renders the application only then)
    session,            \* the bearer token the session holds, or null
    \* MCPClientManager
    clients,            \* this.clients: serverUrl -> connection (0: no entry)
    conns,              \* every Client created by getClient, in creation order
    calls               \* the listTools / callTool invocations, in start order

clientVars == <<clients, conns, calls>>

VARIABLES
    \* MCPClientManager: disconnect and disconnectAll
    closers,            \* the disconnect / disconnectAll invocations, in start order
    closeCalls          \* the connections on which close() has been called

closeVars == <<closers, closeCalls>>

VARIABLES
    \* MCPServerControls
    activeServer,       \* useState('demographics')
    selectedTool,       \* useState('')
    panelLoading,       \* isLoading: a tool execution is awaited
    panelResult,        \* result: null, or the decoded response of a tool call
    panelError,         \* error: null, or the error shown
    availableTools,     \* the tools a server listed ([]: none)
    isLoadingTools,     \* a tool listing is awaited
    connectionStatus,   \* server key -> connected
    panelCalls          \* the listTools / callTool calls of the panel, in start order

panelVars == <<activeServer, selectedTool, panelLoading, panelResult, panelError,
               availableTools, isLoadingTools, connectionStatus, panelCalls>>

VARIABLES
    \* App (query view) and LogsViewer
    invs,               \* the handleQuery / fetchLogs invocations, in start order
    appLoading,         \* App: isLoading
    appError,           \* App: error
    appResults,         \* App: results
    queryHistory,       \* App: queryHistory
    logsLoading,        \* LogsViewer: isLoading
    logsError,          \* LogsViewer: error
    logs                \* LogsViewer: logs

queryVars == <<invs, appLoading, appError, appResults, queryHistory,
               logsLoading, logsError, logs>>

VARIABLES
    \* the request handlers of the two MCP server objects (createServer)
    siteData,           \* site-performance data.js: sites, siteCapabilities,
                        \* enrollmentHistories (undefined: not loaded yet)
    toolRun,            \* the latest handler run: its request and its outcome
    toolRunCount        \* handler runs so far

toolVars == <<siteData, toolRun, toolRunCount>>

VARIABLES
    \* one tool server process (express app + shared mcpServer)
    requests,           \* the POST /mcp requests received, in arrival order
    authLogs,           \* authLogs: AuthLogEntry[]
    entryPoint          \* the entry point the process runs ("none": not started)

serverVars == <<requests, authLogs, entryPoint>>

VARIABLES
    \* the callers of the audit-log module (logRequestDetails, getAuthLogs)
    clock,              \* the time new Date() reads
    logCall,            \* the latest call of the module and what it returned
    logCallCount        \* calls of the module so far

auditVars == <<clock, logCall, logCallCount>>

VARIABLES
    \* App
    currentView         \* useState('query'): the view the navigation tabs show

vars == <<storeVars, flowVars, session, clientVars, queryVars, toolVars, serverVars,
          auditVars, closeVars, panelVars, currentView>>

\* what the operations of one component leave alone
notStoreVars == <<flowVars, session, clientVars, queryVars, toolVars, serverVars, auditVars, closeVars, panelVars,
    currentView>>
notFlowVars == <<storeVars, session, clientVars, queryVars, toolVars, serverVars, auditVars, closeVars, panelVars,
    currentView>>
notClientVars == <<storeVars, flowVars, session, queryVars, toolVars, serverVars, auditVars, closeVars, panelVars,
    currentView>>
notQueryVars == <<storeVars, flowVars, clientVars, toolVars, serverVars, auditVars, closeVars, panelVars,
    currentView>>
notToolVars == <<storeVars, flowVars, session, clientVars, queryVars, serverVars, auditVars, closeVars, panelVars,
    currentView>>
notServerVars == <<storeVars, flowVars, session, clientVars, queryVars, toolVars, auditVars, closeVars, panelVars,
    currentView>>
notAuditVars == <<storeVars, flowVars, session, clientVars, queryVars, toolVars,
                  requests, entryPoint, closeVars,
    panelVars, currentView>>
notCloseVars == <<storeVars, flowVars, session, conns, calls, queryVars, toolVars,
                  serverVars, auditVars,
    panelVars, currentView>>
notPanelVars == <<storeVars, flowVars, session, clientVars, queryVars, toolVars,
                  serverVars, auditVars, closeVars, currentView>>
notPanelCallVars == <<storeVars, flowVars, session, clients, queryVars, toolVars,
                      serverVars, auditVars, closeVars, currentView>>

(***************************************************************************)
(* JavaScript values                                                       *)
(***************************************************************************)
JsUndefined == [t |-> "undefined"]
JsNull == [t |-> "null"]
JsString(s) == [t |-> "string", s |-> s]
JsNumber(n) == [t |-> "number", n |-> n]

\* an object given by its own properties: a function from keys to values
JsObject(fields) == [t |-> "object", fields |-> fields]
JsArray(items) == [t |-> "array", items |-> items]

\* o[k]: a missing property reads as undefined
Prop(o, k) == IF k \in DOMAIN o.fields THEN o.fields[k] ELSE JsUndefined

\* ToBoolean(v) for the value kinds the model uses
Truthy(v) ==
    CASE v.t = "undefined" -> FALSE
      [] v.t = "null" -> FALSE
      [] v.t = "string" -> v.s # ""
      [] v.t = "number" -> v.n # 0
      [] OTHER -> TRUE

\* v.access_token for an object v (a missing property reads as undefined)
AccessTokenOf(v) ==
    IF v.t = "object" THEN v.access_token ELSE JsUndefined

Returned(v) == [t |-> "return", value |-> v]
Thrown(name, message) == [t |-> "throw", name |-> name, message |-> message]

(***************************************************************************)
(* String methods of the JavaScript runtime, on TLA+ strings               *)
(***************************************************************************)
LowerLetters == "abcdefghijklmnopqrstuvwxyz"
UpperLetters == "ABCDEFGHIJKLMNOPQRSTUVWXYZ"

CharAt(s, i) == SubSeq(s, i, i)

\* first position of the character c in s, 0 when s does not hold it
IndexOfChar(s, c) ==
    LET S == {i \in 1..Len(s) : CharAt(s, i) = c}
    IN  IF S = {} THEN 0 ELSE CHOOSE i \in S : \A j \in S : i <= j

\* the lower-case form of each upper-case letter, and the converse
LowerOf ==
    [c \in {CharAt(UpperLetters, i) : i \in 1..Len(UpperLetters)} |->
        CharAt(LowerLetters, IndexOfChar(UpperLetters, c))]

UpperOf ==
    [c \in {CharAt(LowerLetters, i) : i \in 1..Len(LowerLetters)} |->
        CharAt(UpperLetters, IndexOfChar(LowerLetters, c))]

LowerChar(c) == IF c \in DOMAIN LowerOf THEN LowerOf[c] ELSE c

UpperChar(c) == IF c \in DOMAIN UpperOf THEN UpperOf[c] ELSE c

RECURSIVE ToLowerCase(_)
ToLowerCase(s) ==
    IF s = "" THEN "" ELSE LowerChar(Head(s)) \o ToLowerCase(Tail(s))

RECURSIVE ToUpperCase(_)
ToUpperCase(s) ==
    IF s = "" THEN "" ELSE UpperChar(Head(s)) \o ToUpperCase(Tail(s))

\* s.includes(sub)
Includes(s, sub) ==
    \E i \in 0..(Len(s) - Len(sub)) : SubSeq(s, i + 1, i + Len(sub)) = sub

\* s.startsWith(prefix)
StartsWith(s, prefix) ==
    /\ Len(prefix) <= Len(s)
    /\ SubSeq(s, 1, Len(prefix)) = prefix

\* s.substring(n)
Substring(s, n) == SubSeq(s, n + 1, Len(s))

\* the vertical tab (U+000B), written as the character itself
VerticalTab == ""

\* /\s/ on one character, for the whitespace a string of the model can hold
\* (not U+00A0, U+FEFF and the Unicode spaces)
IsWhitespace(c) == c \in {" ", "\t", "\n", "\r", "\f", VerticalTab}

\* s.replace(/\s+/g, "-"): every run of whitespace becomes one hyphen
RECURSIVE ReplaceWhitespaceRuns(_, _)
ReplaceWhitespaceRuns(s, inRun) ==
    IF s = "" THEN ""
    ELSE IF IsWhitespace(Head(s))
         THEN (IF inRun THEN "" ELSE "-") \o ReplaceWhitespaceRuns(Tail(s), TRUE)
         ELSE Head(s) \o ReplaceWhitespaceRuns(Tail(s), FALSE)

\* s.indexOf(sub) + 1: the first position sub is found at, 0 when it is not
IndexOf(s, sub) ==
    LET at == {i \in 1..(Len(s) - Len(sub) + 1) : SubSeq(s, i, i + Len(sub) - 1) = sub}
    IN  IF at = {} THEN 0 ELSE CHOOSE i \in at : \A j \in at : i <= j

\* s.replace(pattern, replacement) for a string pattern: the first occurrence
StringReplace(s, pattern, replacement) ==
    LET i == IndexOf(s, pattern)
    IN  IF i = 0 THEN s
        ELSE SubSeq(s, 1, i - 1) \o replacement \o SubSeq(s, i + Len(pattern), Len(s))

RECURSIVE TrimStart(_)
TrimStart(s) ==
    IF s = "" THEN ""
    ELSE IF IsWhitespace(Head(s)) THEN TrimStart(Tail(s)) ELSE s

RECURSIVE TrimEnd(_)
TrimEnd(s) ==
    IF s = "" THEN ""
    ELSE IF IsWhitespace(SubSeq(s, Len(s), Len(s)))
         THEN TrimEnd(SubSeq(s, 1, Len(s) - 1))
         ELSE s

\* s.trim()
Trim(s) == TrimEnd(TrimStart(s))

(***************************************************************************)
(* Token store: SessionOAuthProvider                                       *)
(***************************************************************************)
MaxStoreOps == 3

AccessTokenValues ==
    {JsUndefined, JsNull, JsString(""), JsString("tokA"), JsString("tokB")}

\* what a caller may pass to saveTokens
TokenArgs ==
    {JsNull, JsUndefined} \cup
    {[t |-> "object", access_token |-> a] : a \in AccessTokenValues}

ClientInfoArgs == {[t |-> "object", client_id |-> "clinical-trial-ui"]}

\* mutant: the guard only tests that a tokens object is held
GetTokenNoFieldCheck(tk) ==
    IF ~Truthy(tk)
    THEN Thrown("Error", "No OAuth token available")
    ELSE Returned(AccessTokenOf(tk))

\* getToken(): the value it resolves to, or the error it rejects with
GetToken(tk) ==
    IF ~Truthy(tk) \/ ~Truthy(AccessTokenOf(tk))
    THEN Thrown("Error", "No OAuth token available")
    ELSE Returned(AccessTokenOf(tk))

\* hasToken(): `this._tokens !== null && this._tokens.access_token !== undefined`;
\* reading a member of undefined throws a TypeError
HasToken(tk) ==
    IF tk.t = "null" THEN Returned(FALSE)
    ELSE IF tk.t = "undefined"
    THEN Thrown("TypeError",
                "Cannot read properties of undefined (reading 'access_token')")
    ELSE Returned(AccessTokenOf(tk) # JsUndefined)

StoreInit ==
    /\ tokens = JsNull
    /\ clientInformation = JsNull
    /\ storeOps = <<>>
    /\ lastGet = [t |-> "none"]

SaveTokens(arg) ==
    /\ Len(storeOps) < MaxStoreOps
    /\ tokens' = arg
    /\ storeOps' = Append(storeOps, [op |-> "saveTokens", arg |-> arg])
    /\ UNCHANGED <<clientInformation, lastGet, notStoreVars>>

SaveClientInformation(info) ==
    /\ Len(storeOps) < MaxStoreOps
    /\ clientInformation' = info
    /\ storeOps' = Append(storeOps, [op |-> "saveClientInformation", arg |-> info])
    /\ UNCHANGED <<tokens, lastGet, notStoreVars>>

ClearToken ==
    /\ Len(storeOps) < MaxStoreOps
    /\ tokens' = JsNull
    /\ clientInformation' = JsNull
    /\ storeOps' = Append(storeOps, [op |-> "clearToken", arg |-> JsUndefined])
    /\ UNCHANGED <<lastGet, notStoreVars>>

GetTokenCall ==
    /\ Len(storeOps) < MaxStoreOps
    /\ lastGet' = GetToken(tokens)
    /\ storeOps' = Append(storeOps, [op |-> "getToken", arg |-> JsUndefined])
    /\ UNCHANGED <<tokens, clientInformation, notStoreVars>>

StoreNext ==
    \/ \E arg \in TokenArgs : SaveTokens(arg)
    \/ \E info \in ClientInfoArgs : SaveClientInformation(info)
    \/ ClearToken
    \/ GetTokenCall

(***************************************************************************)
(* Flow selector: ArchitectView and ArchitectureDiagram                    *)
(***************************************************************************)
FlowType == {"DIRECT", "AGENT", "OBO"}

OffsetPeriod == 20

UserSub == "082b2c00-2d86-460f-9f6d-775bddc1d4ba"
AgentSub == "fb0dba08-1621-49f6-82e4-d81094c5de54"

\* tokenClaims: the claims the model reads (sub, aut, act, scope)
TokenClaims(type) ==
    CASE type = "user" ->
           [sub |-> UserSub, aut |-> "APPLICATION_USER",
            scope |-> "email openid profile query_agent"]
      [] type = "obo" ->
           [sub |-> UserSub, aut |-> "APPLICATION_USER",
            act |-> [sub |-> AgentSub]]
      [] type = "agent" ->
           [sub |-> AgentSub, aut |-> "AGENT", scope |-> "openid"]

TokenTypes == {"user", "obo", "agent"}

TooltipTitle(type) ==
    IF type = "user" THEN "User Token"
    ELSE IF type = "agent" THEN "Agent Token" ELSE "OBO Token"

\* The links drawn toward the two MCP servers and whether the flow drives them
\* (coloured, dashed, animated, with an arrowhead).
ActiveMcpLinks(flow) ==
    (IF flow = "DIRECT" THEN {"SPA->MCP"} ELSE {}) \cup
    (IF flow \in {"AGENT", "OBO"} THEN {"Agent->MCP"} ELSE {})

\* mutant: the Agent -> MCP label of the agent flow opens the OBO claims
TokenLabelsAgentShowsObo(flow) ==
    (IF flow = "OBO"
       THEN {[text |-> "OBO Token", type |-> "obo", link |-> "Auth->Agent"]}
       ELSE {}) \cup
    (IF flow = "AGENT"
       THEN {[text |-> "Agent Token", type |-> "agent", link |-> "Auth->Agent"]}
       ELSE {}) \cup
    (IF flow # "OBO"
       THEN {[text |-> "User Token", type |-> "obo", link |-> "Auth->SPA"]}
       ELSE {}) \cup
    (IF flow = "DIRECT"
       THEN {[text |-> "User Token", type |-> "user", link |-> "SPA->MCP"]}
       ELSE {}) \cup
    (IF flow = "AGENT"
       THEN {[text |-> "User Token", type |-> "user", link |-> "SPA->Agent"],
             [text |-> "Agent Token", type |-> "obo", link |-> "Agent->MCP"]}
       ELSE {}) \cup
    (IF flow = "OBO"
       THEN {[text |-> "OBO Token", type |-> "obo", link |-> "Agent->MCP"]}
       ELSE {})

\* The token labels rendered for a flow: the text shown, the tokenClaims key
\* its handlers pass, and the link the label sits on.
TokenLabels(flow) ==
    (IF flow = "OBO"
       THEN {[text |-> "OBO Token", type |-> "obo", link |-> "Auth->Agent"]}
       ELSE {}) \cup
    (IF flow = "AGENT"
       THEN {[text |-> "Agent Token", type |-> "agent", link |-> "Auth->Agent"]}
       ELSE {}) \cup
    (IF flow # "OBO"
       THEN {[text |-> "User Token", type |-> "obo", link |-> "Auth->SPA"]}
       ELSE {}) \cup
    (IF flow = "DIRECT"
       THEN {[text |-> "User Token", type |-> "user", link |-> "SPA->MCP"]}
       ELSE {}) \cup
    (IF flow = "AGENT"
       THEN {[text |-> "User Token", type |-> "user", link |-> "SPA->Agent"],
             [text |-> "Agent Token", type |-> "agent", link |-> "Agent->MCP"]}
       ELSE {}) \cup
    (IF flow = "OBO"
       THEN {[text |-> "OBO Token", type |-> "obo", link |-> "Agent->MCP"]}
       ELSE {})

\* The tokens shown attached to calls toward the tool servers under a flow
AttachedTokens(flow) ==
    {l \in TokenLabels(flow) : l.link \in ActiveMcpLinks(flow)}

FlowInit ==
    /\ activeFlow = "DIRECT"
    /\ offset = 0
    /\ tooltip = JsNull

TooltipPinned == tooltip.t = "object" /\ tooltip.pinned

\* ArchitectView and its diagram are rendered while the architecture view is
\* shown (App.jsx: currentView === 'query' ? ... : <ArchitectView />)
ArchitectShown == currentView = "architect"

\* the <main> of the query view (MCPServerControls, QueryForm, ExampleQueries,
\* ResultsDisplay) is rendered while the query view is shown
QueryShown == currentView = "query"

\* onClick of the three flow buttons
SetActiveFlow(flow) ==
    /\ ArchitectShown
    /\ activeFlow' = flow
    /\ UNCHANGED <<offset, tooltip, notFlowVars>>

\* setInterval callback
Tick ==
    /\ ArchitectShown
    /\ offset' = (offset + 1) % OffsetPeriod
    /\ UNCHANGED <<activeFlow, tooltip, notFlowVars>>

HandleMouseEnter(label) ==
    /\ ArchitectShown
    /\ label \in TokenLabels(activeFlow)
    /\ tooltip' = IF TooltipPinned THEN tooltip
                  ELSE [t |-> "object", content |-> TokenClaims(label.type),
                        title |-> TooltipTitle(label.type), pinned |-> FALSE]
    /\ UNCHANGED <<activeFlow, offset, notFlowVars>>

HandleMouseLeave ==
    /\ ArchitectShown
    /\ tooltip' = IF TooltipPinned THEN tooltip ELSE JsNull
    /\ UNCHANGED <<activeFlow, offset, notFlowVars>>

HandleTokenClick(label) ==
    /\ ArchitectShown
    /\ label \in TokenLabels(activeFlow)
    /\ tooltip' = [t |-> "object", content |-> TokenClaims(label.type),
                   title |-> TooltipTitle(label.type), pinned |-> TRUE]
    /\ UNCHANGED <<activeFlow, offset, notFlowVars>>

\* the close button, rendered only while the tooltip is pinned
CloseTooltip ==
    /\ ArchitectShown
    /\ TooltipPinned
    /\ tooltip' = JsNull
    /\ UNCHANGED <<activeFlow, offset, notFlowVars>>

AllLabels == UNION {TokenLabels(f) : f \in FlowType}

(***************************************************************************)
(* Tool invocation client: MCPClientManager                                *)
(***************************************************************************)
MaxCalls == 3

ServerUrls == {"http://localhost:4001/mcp", "http://localhost:4002/mcp"}

\* mcpServers[key].url
ServerUrl(key) ==
    IF key = "demographics"
    THEN "http://localhost:4001/mcp"
    ELSE "http://localhost:4002/mcp"

SessionTokens == {JsString("tokA")}

\* what a failed connect or request rejects with (error.message): the
\* server cannot be reached when connecting, or it refuses a request
ConnectCauses == {"Failed to fetch"}
RequestCauses == {"Error POSTing to endpoint (HTTP 401)"}
CauseMessages == ConnectCauses \cup RequestCauses

\* new StreamableHTTPClientTransport(new URL(serverUrl)): no options are
\* passed, so the transport has neither an authProvider nor request headers
TransportOptions == [authProvider |-> JsUndefined, requestInit |-> JsUndefined]

\* The Authorization header the transport puts on a request: the bearer token
\* of its authProvider when it has one, otherwise none.
AuthorizationHeader(opts) ==
    IF opts.authProvider.t = "object"
    THEN JsString("Bearer " \o opts.authProvider.access_token.s)
    ELSE JsUndefined

Request(method) ==
    [method |-> method, authorization |-> AuthorizationHeader(TransportOptions)]

ErrorPrefix(op) ==
    IF op = "listTools" THEN "Failed to list tools: " ELSE "Failed to call tool: "

RpcMethod(op) == IF op = "listTools" THEN "tools/list" ELSE "tools/call"

\* the manager once the effect of the first render of MCPServerControls has
\* called listTools(mcpServers.demographics.url): the map holds no client, so
\* getClient has created the first one and awaits its connect
ClientInit ==
    /\ session \in SessionTokens
    /\ clients = [u \in ServerUrls |-> 0]
    /\ conns = <<[url |-> ServerUrl("demographics"), state |-> "connecting",
                  initialize |-> Request("initialize")]>>
    /\ calls = <<[op |-> "listTools", url |-> ServerUrl("demographics"),
                  pc |-> "connecting", client |-> 1, connects |-> 1,
                  requests |-> <<>>,
                  cause |-> "", outcome |-> [t |-> "none"]]>>

\* listTools(serverUrl) / callTool(serverUrl, ...) up to the first await that
\* suspends: getClient returns the stored client and the caller's
\* `await this.getClient(serverUrl)` suspends, or a new Client is created and
\* client.connect(transport) is awaited.
GetClient(op, url) ==
    IF clients[url] # 0
    THEN /\ calls' = Append(calls,
                [op |-> op, url |-> url, pc |-> "gotClient",
                 client |-> clients[url], connects |-> 0,
                 requests |-> <<>>,
                 cause |-> "", outcome |-> [t |-> "none"]])
         /\ UNCHANGED conns
    ELSE /\ conns' = Append(conns,
                [url |-> url, state |-> "connecting",
                 initialize |-> Request("initialize")])
         /\ calls' = Append(calls,
                [op |-> op, url |-> url, pc |-> "connecting",
                 client |-> Len(conns) + 1, connects |-> 1,
                 requests |-> <<>>,
                 cause |-> "", outcome |-> [t |-> "none"]])

\* a call of listTools or callTool
StartCall(op, url) ==
    /\ Len(calls) < MaxCalls
    /\ GetClient(op, url)
    /\ UNCHANGED <<clients, notClientVars>>

\* await client.connect(transport) resolves: the client is stored under the
\* URL and returned; the caller's `await this.getClient(serverUrl)` resumes
\* later.
ConnectResolves(c) ==
    /\ c \in 1..Len(calls)
    /\ calls[c].pc = "connecting"
    /\ conns' = [conns EXCEPT ![calls[c].client].state = "connected"]
    /\ clients' = [clients EXCEPT ![calls[c].url] = calls[c].client]
    /\ calls' = [calls EXCEPT ![c].pc = "gotClient"]
    /\ UNCHANGED notClientVars

\* `await this.getClient(serverUrl)` resumes in listTools / callTool: the
\* request is sent on the client getClient returned
SendRequest(c) ==
    /\ c \in 1..Len(calls)
    /\ calls[c].pc = "gotClient"
    /\ calls' = [calls EXCEPT
                   ![c].pc = "calling",
                   ![c].requests = Append(@, Request(RpcMethod(calls[c].op)))]
    /\ UNCHANGED <<clients, conns, notClientVars>>

\* await client.connect(transport) rejects: the catch block rethrows
ConnectRejects(c, cause) ==
    /\ c \in 1..Len(calls)
    /\ calls[c].pc = "connecting"
    /\ conns' = [conns EXCEPT ![calls[c].client].state = "failed"]
    /\ calls' = [calls EXCEPT
                   ![c].pc = "done",
                   ![c].cause = cause,
                   ![c].outcome = Thrown("Error", ErrorPrefix(calls[c].op) \o cause)]
    /\ UNCHANGED <<clients, notClientVars>>

\* the tools/list or tools/call response arrives
RequestResolves(c) ==
    /\ c \in 1..Len(calls)
    /\ calls[c].pc = "calling"
    /\ calls' = [calls EXCEPT
                   ![c].pc = "done",
                   ![c].outcome = Returned([t |-> "response", url |-> calls[c].url,
                                            method |-> RpcMethod(calls[c].op)])]
    /\ UNCHANGED <<clients, conns, notClientVars>>

\* mutant: a failed request is sent again before the error is reported
RequestRejectsRetries(c, cause) ==
    /\ c \in 1..Len(calls)
    /\ calls[c].pc = "calling"
    /\ calls' = IF Len(calls[c].requests) < 2
                THEN [calls EXCEPT
                        ![c].requests = Append(@, Request(RpcMethod(calls[c].op)))]
                ELSE [calls EXCEPT
                        ![c].pc = "done",
                        ![c].cause = cause,
                        ![c].outcome =
                            Thrown("Error", ErrorPrefix(calls[c].op) \o cause)]
    /\ UNCHANGED <<clients, conns, notClientVars>>

\* client.listTools() / client.callTool() rejects: the catch block rethrows
RequestRejects(c, cause) ==
    /\ c \in 1..Len(calls)
    /\ calls[c].pc = "calling"
    /\ calls' = [calls EXCEPT
                   ![c].pc = "done",
                   ![c].cause = cause,
                   ![c].outcome = Thrown("Error", ErrorPrefix(calls[c].op) \o cause)]
    /\ UNCHANGED <<clients, conns, notClientVars>>

ClientNext ==
    \/ \E op \in {"listTools", "callTool"}, url \in ServerUrls : StartCall(op, url)
    \/ \E c \in 1..MaxCalls : ConnectResolves(c)
    \/ \E c \in 1..MaxCalls : SendRequest(c)
    \/ \E c \in 1..MaxCalls, m \in ConnectCauses : ConnectRejects(c, m)
    \/ \E c \in 1..MaxCalls : RequestResolves(c)
    \/ \E c \in 1..MaxCalls, m \in RequestCauses : RequestRejects(c, m)

(***************************************************************************)
(* MCPClientManager: disconnect, disconnectAll, isConnected                *)
(***************************************************************************)
MaxClosers == 2

\* isConnected(serverUrl): this.clients.has(serverUrl)
IsConnected(url) == clients[url] # 0

\* the clients the map holds: Array.from(this.clients.entries())
Entries == {clients[u] : u \in {v \in ServerUrls : clients[v] # 0}}

CloseInit ==
    /\ closers = <<>>
    /\ closeCalls = {}

\* disconnect(serverUrl) up to `await client.close()`; without a client for
\* the URL it returns at once
DisconnectBegin(url) ==
    /\ Len(closers) < MaxClosers
    /\ closers' = Append(closers,
           [kind |-> "disconnect", url |-> url, client |-> clients[url],
            pending |-> {}, threw |-> {},
            pc |-> IF clients[url] # 0 THEN "closing" ELSE "done"])
    /\ closeCalls' = closeCalls \cup (IF clients[url] # 0 THEN {clients[url]} ELSE {})
    /\ UNCHANGED <<clients, notCloseVars>>

\* `await client.close()` of disconnect settles: this.clients.delete(serverUrl)
\* runs when it resolved; when it threw, disconnect rejects before the delete
DisconnectSettles(k, ok) ==
    /\ k \in 1..Len(closers)
    /\ closers[k].kind = "disconnect"
    /\ closers[k].pc = "closing"
    /\ closers' = [closers EXCEPT
                     ![k].pc = "done",
                     ![k].threw = IF ok THEN {} ELSE {closers[k].client}]
    /\ clients' = IF ok THEN [clients EXCEPT ![closers[k].url] = 0] ELSE clients
    /\ UNCHANGED <<closeCalls, notCloseVars>>

\* disconnectAll() up to `await Promise.all(disconnectPromises)`: close() is
\* called on every client the map holds at this moment
DisconnectAllBegin ==
    /\ Len(closers) < MaxClosers
    /\ closers' = Append(closers,
           [kind |-> "disconnectAll", url |-> "", client |-> 0,
            pending |-> Entries, threw |-> {}, pc |-> "closing"])
    /\ closeCalls' = closeCalls \cup Entries
    /\ UNCHANGED <<clients, notCloseVars>>

\* every close() of disconnectAll has settled, the ones in threw by throwing
\* (caught and logged): Promise.all resolves and this.clients.clear() runs
DisconnectAllSettles(k, threw) ==
    /\ k \in 1..Len(closers)
    /\ closers[k].kind = "disconnectAll"
    /\ closers[k].pc = "closing"
    /\ threw \subseteq closers[k].pending
    /\ closers' = [closers EXCEPT ![k].pc = "done", ![k].threw = threw]
    /\ clients' = [u \in ServerUrls |-> 0]
    /\ UNCHANGED <<closeCalls, notCloseVars>>

\* the connection manager with its callers: tool listings that connect, and
\* disconnects
CloseNext ==
    \/ \E url \in ServerUrls : StartCall("listTools", url)
    \/ \E c \in 1..MaxCalls : ConnectResolves(c)
    \/ \E c \in 1..MaxCalls : SendRequest(c)
    \/ \E c \in 1..MaxCalls, m \in ConnectCauses : ConnectRejects(c, m)
    \/ \E c \in 1..MaxCalls : RequestResolves(c)
    \/ \E url \in ServerUrls : DisconnectBegin(url)
    \/ \E k \in 1..MaxClosers, ok \in BOOLEAN : DisconnectSettles(k, ok)
    \/ DisconnectAllBegin
    \/ \E k \in 1..MaxClosers, threw \in SUBSET (1..MaxCalls) : DisconnectAllSettles(k, threw)

(***************************************************************************)
(* Callers that fetch with the session's bearer token: App.handleQuery and *)
(* LogsViewer.fetchLogs                                                    *)
(***************************************************************************)
MaxInvocations == 3

HistoryKept == 9

Queries == {"q1"}

\* what the textarea of the query form can hold: a query, a query with white
\* space around it, white space only
FormTexts == {"q1", " q1\n", " \t"}

HttpStatuses == {200, 204, 500}

\* response.ok: a status in the range 200-299
ResponseOk(status) == status \in 200..299

JsError(name, message) == [t |-> "error", name |-> name, message |-> message]

\* await getAccessToken(): resolves with the token the session holds, rejects
\* when it holds none
GetAccessToken(sess) ==
    IF Truthy(sess)
    THEN Returned(sess)
    ELSE Thrown("Error", "No OAuth token available")

\* the URL an invocation fetches: agentConfig.queryUrl, or
\* serverUrl.replace('/mcp', '/auth-logs')
TargetUrl(inv) ==
    IF inv.kind = "handleQuery"
    THEN "http://localhost:8010/api/query"
    ELSE StringReplace(inv.serverUrl, "/mcp", "/auth-logs")

QueryInit ==
    /\ invs = <<>>
    /\ appLoading = FALSE
    /\ appError = JsNull
    /\ appResults = JsNull
    /\ queryHistory = <<>>
    /\ logsLoading = FALSE
    /\ logsError = JsNull
    /\ logs = <<>>

NewInvocation(kind, query, serverUrl) ==
    [kind |-> kind, query |-> query, serverUrl |-> serverUrl, pc |-> "awaitToken", fetches |-> <<>>,
     timer |-> "none", tokenFailed |-> FALSE, outcome |-> [t |-> "none"]]

\* handleQuery(query) up to `await getAccessToken()`, for at most maxInvs
\* invocations
HandleQueryStart(query, maxInvs) ==
    /\ Len(invs) < maxInvs
    /\ appLoading' = TRUE
    /\ appError' = JsNull
    /\ appResults' = JsNull
    /\ invs' = Append(invs, NewInvocation("handleQuery", query, ""))
    /\ UNCHANGED <<queryHistory, logsLoading, logsError, logs, session, notQueryVars>>

HandleQueryBegin(query) == HandleQueryStart(query, MaxInvocations)

\* mutant: the form submits while a query is loading
SubmitQueryWhileLoading(query) ==
    /\ QueryShown
    /\ Trim(query) # ""
    /\ HandleQueryBegin(Trim(query))

\* QueryForm.handleSubmit:
\* `if (query.trim() && !isLoading) onSubmit(query.trim())`
SubmitQuery(query) ==
    /\ QueryShown
    /\ Trim(query) # "" /\ ~appLoading
    /\ HandleQueryBegin(Trim(query))

\* ExampleQueries is rendered when !isLoading && !results && !error
SelectExample(query) ==
    /\ QueryShown
    /\ ~appLoading /\ appResults = JsNull /\ appError = JsNull
    /\ HandleQueryBegin(query)

\* fetchLogs() up to `await getAccessToken()`
FetchLogsBegin(serverUrl) ==
    /\ Len(invs) < MaxInvocations
    /\ logsLoading' = TRUE
    /\ logsError' = JsNull
    /\ invs' = Append(invs, NewInvocation("fetchLogs", "", serverUrl))
    /\ UNCHANGED <<appLoading, appError, appResults, queryHistory, logs,
                   session, notQueryVars>>

\* the serverUrl prop of the LogsViewer shown, the one its latest fetchLogs
\* ran with ("": no LogsViewer has been rendered)
LogsServerUrl ==
    LET ran == {j \in 1..Len(invs) : invs[j].kind = "fetchLogs"}
    IN  IF ran = {} THEN ""
        ELSE invs[CHOOSE j \in ran : \A k \in ran : k <= j].serverUrl

\* useEffect(() => { fetchLogs() }, [serverUrl]): LogsViewer is rendered with
\* serverUrl, for the first time or with another value than before
LogsEffect(serverUrl) ==
    /\ serverUrl # LogsServerUrl
    /\ FetchLogsBegin(serverUrl)

\* the refresh button, disabled while isLoading
LogsRefresh ==
    /\ LogsServerUrl # ""
    /\ ~logsLoading
    /\ FetchLogsBegin(LogsServerUrl)

\* The catch and finally blocks of the invocation i, entered with error err.
\* (A response that is not ok throws after clearTimeout; a rejected fetch
\* skips clearTimeout and leaves the timer armed.)
Fail(i, err) ==
    /\ invs' = [invs EXCEPT ![i].pc = "done", ![i].outcome = err,
                            ![i].tokenFailed = (invs[i].pc = "awaitToken"),
                            ![i].timer =
                                IF err.name = "AbortError" THEN "fired"
                                ELSE IF invs[i].pc = "awaitFetch" /\ err.name = "Error"
                                     THEN IF @ = "armed" THEN "cleared" ELSE @
                                     ELSE @]
    /\ IF invs[i].kind = "handleQuery"
       THEN /\ appError' =
                 IF err.name = "AbortError"
                 THEN [t |-> "object", message |-> "Request timed out"]
                 ELSE err
            /\ appLoading' = FALSE
            /\ UNCHANGED <<logsError, logsLoading>>
       ELSE /\ logsError' = [t |-> "object", message |-> "Failed to fetch logs",
                             details |-> err.message]
            /\ logsLoading' = FALSE
            /\ UNCHANGED <<appError, appLoading>>
    /\ UNCHANGED <<appResults, queryHistory, logs, session, notQueryVars>>

\* mutant: a failed token getter is ignored and the request goes out without
\* a usable token
TokenSettlesIgnoresFailure(i) ==
    /\ i \in 1..Len(invs)
    /\ invs[i].pc = "awaitToken"
    /\ invs' = [invs EXCEPT
                  ![i].pc = "awaitFetch",
                  ![i].tokenFailed = (GetAccessToken(session).t = "throw"),
                  ![i].timer = IF invs[i].kind = "handleQuery" THEN "armed" ELSE @,
                  ![i].fetches = Append(@,
                      [url |-> TargetUrl(invs[i]),
                       authorization |-> JsString("Bearer undefined")])]
    /\ UNCHANGED <<appLoading, appError, appResults, queryHistory,
                   logsLoading, logsError, logs, session, notQueryVars>>

\* `await getAccessToken()` settles. Resolved: handleQuery arms the 120 s abort
\* timer, and the request is issued with the token as bearer credential.
\* Rejected: control passes to the catch block.
TokenSettles(i) ==
    /\ i \in 1..Len(invs)
    /\ invs[i].pc = "awaitToken"
    /\ LET r == GetAccessToken(session) IN
       IF r.t = "return"
       THEN /\ invs' = [invs EXCEPT
                  ![i].pc = "awaitFetch",
                  ![i].timer = IF invs[i].kind = "handleQuery" THEN "armed" ELSE @,
                  ![i].fetches = Append(@,
                      [url |-> TargetUrl(invs[i]),
                       authorization |-> JsString("Bearer " \o r.value.s)])]
            /\ UNCHANGED <<appLoading, appError, appResults, queryHistory,
                           logsLoading, logsError, logs, session, notQueryVars>>
       ELSE Fail(i, JsError(r.name, r.message))

\* fetch() resolves with a response that is not ok
FetchRespondsNotOk(i, status) ==
    /\ i \in 1..Len(invs)
    /\ invs[i].pc = "awaitFetch"
    /\ ~ResponseOk(status)
    /\ Fail(i, JsError("Error", "HTTP error! status: " \o ToString(status)))

\* fetch() resolves with an ok response: clearTimeout, then `await response.json()`
FetchRespondsOk(i) ==
    /\ i \in 1..Len(invs)
    /\ invs[i].pc = "awaitFetch"
    /\ invs' = [invs EXCEPT ![i].pc = "awaitJson",
                            ![i].timer = IF @ = "armed" THEN "cleared" ELSE @]
    /\ UNCHANGED <<appLoading, appError, appResults, queryHistory,
                   logsLoading, logsError, logs, session, notQueryVars>>

\* fetch() rejects (network failure)
FetchRejects(i) ==
    /\ i \in 1..Len(invs)
    /\ invs[i].pc = "awaitFetch"
    /\ Fail(i, JsError("TypeError", "Failed to fetch"))

\* the 120 s timer fires: controller.abort() rejects the pending fetch
TimerFires(i) ==
    /\ i \in 1..Len(invs)
    /\ invs[i].timer = "armed"
    /\ IF invs[i].pc = "awaitFetch"
       THEN Fail(i, JsError("AbortError", "The user aborted a request."))
       ELSE /\ invs' = [invs EXCEPT ![i].timer = "fired"]
            /\ UNCHANGED <<appLoading, appError, appResults, queryHistory,
                           logsLoading, logsError, logs, session, notQueryVars>>

\* response.json() rejects
JsonRejects(i) ==
    /\ i \in 1..Len(invs)
    /\ invs[i].pc = "awaitJson"
    /\ Fail(i, JsError("SyntaxError", "Unexpected token"))

Min(a, b) == IF a < b THEN a ELSE b

\* what the /auth-logs response decodes to: an error object, an empty array,
\* an array of entries in the order the server stored them
LogEntry(id, timestamp) == [id |-> id, timestamp |-> timestamp]

LogBodies ==
    {[t |-> "object", error |-> "unauthorized"],
     [t |-> "array", items |-> <<>>],
     [t |-> "array", items |-> <<LogEntry("a", 1), LogEntry("b", 3), LogEntry("c", 2),
                                 LogEntry("d", 3)>>]}

\* entry e put into a sequence that is sorted newest first, behind the
\* entries of its own timestamp (Array.prototype.sort is stable)
RECURSIVE InsertNewestFirst(_, _)
InsertNewestFirst(sorted, e) ==
    IF sorted = <<>> THEN <<e>>
    ELSE IF Head(sorted).timestamp >= e.timestamp
         THEN <<Head(sorted)>> \o InsertNewestFirst(Tail(sorted), e)
         ELSE <<e>> \o sorted

RECURSIVE SortNewestFirst(_)
SortNewestFirst(items) ==
    IF items = <<>> THEN <<>>
    ELSE InsertNewestFirst(SortNewestFirst(SubSeq(items, 1, Len(items) - 1)),
                           items[Len(items)])

\* Array.isArray(data) ? data.sort(newest first) : []
SortedLogs(data) ==
    IF data.t = "array" THEN SortNewestFirst(data.items) ELSE <<>>

\* new Date() at the completion of an invocation, as a logical time: the
\* number of invocations completed before it
CompletionTime == Cardinality({j \in 1..Len(invs) : invs[j].pc = "done"}) + 1

\* mutant: the history keeps one entry more
JsonResolvesKeepsEleven(i) ==
    /\ i \in 1..Len(invs)
    /\ invs[i].pc = "awaitJson"
    /\ invs' = [invs EXCEPT ![i].pc = "done",
                            ![i].outcome = [t |-> "data", query |-> invs[i].query]]
    /\ IF invs[i].kind = "handleQuery"
       THEN /\ appResults' = [t |-> "data", query |-> invs[i].query]
            /\ queryHistory' =
                 <<[query |-> invs[i].query,
                    timestamp |-> CompletionTime,
                    results |-> [t |-> "data", query |-> invs[i].query]]>>
                 \o SubSeq(queryHistory, 1, Min(HistoryKept + 1, Len(queryHistory)))
            /\ appLoading' = FALSE
            /\ UNCHANGED <<logs, logsLoading>>
       ELSE /\ \E data \in LogBodies : logs' = SortedLogs(data)
            /\ logsLoading' = FALSE
            /\ UNCHANGED <<appResults, queryHistory, appLoading>>
    /\ UNCHANGED <<appError, logsError, session, notQueryVars>>

\* response.json() resolves: the success path and the finally block
JsonResolves(i) ==
    /\ i \in 1..Len(invs)
    /\ invs[i].pc = "awaitJson"
    /\ invs' = [invs EXCEPT ![i].pc = "done",
                            ![i].outcome = [t |-> "data", query |-> invs[i].query]]
    /\ IF invs[i].kind = "handleQuery"
       THEN /\ appResults' = [t |-> "data", query |-> invs[i].query]
            /\ queryHistory' =
                 <<[query |-> invs[i].query,
                    timestamp |-> CompletionTime,
                    results |-> [t |-> "data", query |-> invs[i].query]]>>
                 \o SubSeq(queryHistory, 1, Min(HistoryKept, Len(queryHistory)))
            /\ appLoading' = FALSE
            /\ UNCHANGED <<logs, logsLoading>>
       ELSE /\ \E data \in LogBodies : logs' = SortedLogs(data)
            /\ logsLoading' = FALSE
            /\ UNCHANGED <<appResults, queryHistory, appLoading>>
    /\ UNCHANGED <<appError, logsError, session, notQueryVars>>

\* the session's token expires with no refresh path
SessionExpires ==
    /\ session.t = "string"
    /\ session' = JsNull
    /\ UNCHANGED <<queryVars, notQueryVars>>

\* the identity SDK obtains a token again
SessionRenewed(tok) ==
    /\ session = JsNull
    /\ session' = tok
    /\ UNCHANGED <<queryVars, notQueryVars>>

QueryNext ==
    \/ \E text \in FormTexts : SubmitQuery(text)
    \/ \E q \in Queries : SelectExample(q)
    \/ \E url \in ServerUrls : LogsEffect(url)
    \/ LogsRefresh
    \/ \E i \in 1..MaxInvocations : TokenSettles(i)
    \/ \E i \in 1..MaxInvocations, st \in HttpStatuses : FetchRespondsNotOk(i, st)
    \/ \E i \in 1..MaxInvocations : FetchRespondsOk(i)
    \/ \E i \in 1..MaxInvocations : FetchRejects(i)
    \/ \E i \in 1..MaxInvocations : TimerFires(i)
    \/ \E i \in 1..MaxInvocations : JsonRejects(i)
    \/ \E i \in 1..MaxInvocations : JsonResolves(i)
    \/ SessionExpires
    \/ \E tok \in SessionTokens : SessionRenewed(tok)

\* A long sitting at the query form: one query after the other, each answered
\* by the agent or cut off by the 120 s timer
MaxHistoryQueries == 12

SubmitQueryAgain(query) ==
    /\ QueryShown
    /\ Trim(query) # "" /\ ~appLoading
    /\ HandleQueryStart(Trim(query), MaxHistoryQueries)

HistoryNext ==
    \/ \E text \in {" q1\n", " \t"} : SubmitQueryAgain(text)
    \/ \E i \in 1..MaxHistoryQueries : TokenSettles(i)
    \/ \E i \in 1..MaxHistoryQueries : FetchRespondsOk(i)
    \/ \E i \in 1..MaxHistoryQueries : TimerFires(i)
    \/ \E i \in 1..MaxHistoryQueries : JsonResolves(i)

(***************************************************************************)
(* MCPServerControls: server tabs, tool listing, tool execution            *)
(***************************************************************************)
ServerKeys == {"demographics", "performance"}

\* mcpServers[key].tools: the fallback options, labelled by display name
ConfigTools(key) ==
    IF key = "demographics"
    THEN {"Search Patient Pools", "Get Demographics by Region"}
    ELSE {"Search Sites", "Get Site Capabilities", "Get Enrollment History"}

\* the names in a server's tools/list response
ListedTools(key) ==
    IF key = "demographics"
    THEN {"search_patient_pools", "get_demographics_by_region"}
    ELSE {"search_sites", "get_site_capabilities", "get_enrollment_history"}

\* the options of the tool select: availableTools when it is not empty,
\* otherwise the configured tools of the current server
ToolOptions ==
    IF availableTools.tools # {} THEN availableTools.tools ELSE ConfigTools(activeServer)

NoTools == [server |-> "", tools |-> {}]

\* a call of the panel on the manager, awaited: call is its place in calls
PanelCall(key, kind, tool, call) ==
    [server |-> key, kind |-> kind, tool |-> tool, pc |-> "awaiting", call |-> call]

\* loadAvailableTools() of a render whose server is key, up to
\* `await mcpClientManager.listTools(currentServer.url)`
LoadAvailableTools(key) ==
    /\ Len(calls) < MaxCalls
    /\ GetClient("listTools", ServerUrl(key))
    /\ panelCalls' = Append(panelCalls, PanelCall(key, "listTools", "", Len(calls) + 1))
    /\ isLoadingTools' = TRUE
    /\ panelError' = JsNull

\* the component after its first render and the effect that follows it,
\* which has called loadAvailableTools()
PanelInit ==
    /\ activeServer = "demographics"
    /\ selectedTool = ""
    /\ panelLoading = FALSE
    /\ panelResult = JsNull
    /\ panelError = JsNull
    /\ availableTools = NoTools
    /\ isLoadingTools = TRUE
    /\ connectionStatus = [k \in ServerKeys |-> FALSE]
    /\ panelCalls = <<PanelCall("demographics", "listTools", "", 1)>>

\* onClick of a server tab, and the effect on [activeServer] when it changed
SelectServer(key) ==
    /\ QueryShown
    /\ activeServer' = key
    /\ selectedTool' = ""
    /\ panelResult' = JsNull
    /\ IF key # activeServer
       THEN LoadAvailableTools(key)
       ELSE /\ panelError' = JsNull
            /\ UNCHANGED <<panelCalls, isLoadingTools, conns, calls>>
    /\ UNCHANGED <<panelLoading, availableTools, connectionStatus, notPanelCallVars>>

\* onClick of the refresh button (disabled while a listing is awaited)
Refresh ==
    /\ QueryShown
    /\ ~isLoadingTools
    /\ LoadAvailableTools(activeServer)
    /\ UNCHANGED <<activeServer, selectedTool, panelLoading, panelResult, availableTools,
                   connectionStatus, notPanelCallVars>>

\* handleToolChange(toolId): the select is disabled while anything is awaited
HandleToolChange(toolId) ==
    /\ QueryShown
    /\ ~(panelLoading \/ isLoadingTools)
    /\ toolId \in ToolOptions \cup {""}
    /\ selectedTool' = toolId
    /\ panelResult' = JsNull
    /\ panelError' = JsNull
    /\ UNCHANGED <<activeServer, panelLoading, availableTools, isLoadingTools,
                   connectionStatus, panelCalls, notPanelVars>>

\* handleExecute() up to `await mcpClientManager.callTool(currentServer.url,
\* selectedTool, toolParams)`; the button is rendered for a selected tool and
\* disabled while an execution is awaited
HandleExecute ==
    /\ QueryShown
    /\ selectedTool # ""
    /\ ~panelLoading
    /\ Len(calls) < MaxCalls
    /\ GetClient("callTool", ServerUrl(activeServer))
    /\ panelLoading' = TRUE
    /\ panelError' = JsNull
    /\ panelResult' = JsNull
    /\ panelCalls' = Append(panelCalls,
           PanelCall(activeServer, "callTool", selectedTool, Len(calls) + 1))
    /\ UNCHANGED <<activeServer, selectedTool, availableTools, isLoadingTools,
                   connectionStatus, notPanelCallVars>>

\* the awaited listTools of the manager has settled: the rest of
\* loadAvailableTools, with the server of the render that started it
ListToolsSettles(k) ==
    /\ k \in 1..Len(panelCalls)
    /\ panelCalls[k].kind = "listTools"
    /\ panelCalls[k].pc = "awaiting"
    /\ calls[panelCalls[k].call].pc = "done"
    /\ panelCalls' = [panelCalls EXCEPT ![k].pc = "done"]
    /\ IF calls[panelCalls[k].call].outcome.t = "return"
       THEN /\ availableTools' = [server |-> panelCalls[k].server,
                                  tools |-> ListedTools(panelCalls[k].server)]
            /\ connectionStatus' = [connectionStatus EXCEPT ![panelCalls[k].server] = TRUE]
            /\ UNCHANGED panelError
       ELSE /\ panelError' = [t |-> "error", message |-> "Failed to connect to MCP server",
                         server |-> panelCalls[k].server]
            /\ availableTools' = NoTools
            /\ connectionStatus' = [connectionStatus EXCEPT ![panelCalls[k].server] = FALSE]
    /\ isLoadingTools' = FALSE
    /\ UNCHANGED <<activeServer, selectedTool, panelLoading, panelResult, notPanelVars>>

\* the awaited callTool of the manager has settled, resolving or rejecting
\* with the manager's error: the rest of handleExecute
CallToolSettles(k) ==
    /\ k \in 1..Len(panelCalls)
    /\ panelCalls[k].kind = "callTool"
    /\ panelCalls[k].pc = "awaiting"
    /\ calls[panelCalls[k].call].pc = "done"
    /\ panelCalls' = [panelCalls EXCEPT ![k].pc = "done"]
    /\ LET outcome == calls[panelCalls[k].call].outcome IN
       IF outcome.t = "return"
       THEN /\ panelResult' = [t |-> "result", server |-> panelCalls[k].server,
                          tool |-> panelCalls[k].tool]
            /\ UNCHANGED panelError
       ELSE /\ panelError' = [t |-> "error",
                              message |-> IF outcome.message # ""
                                          THEN outcome.message
                                          ELSE "Failed to execute tool",
                              server |-> panelCalls[k].server]
            /\ UNCHANGED panelResult
    /\ panelLoading' = FALSE
    /\ UNCHANGED <<activeServer, selectedTool, availableTools, isLoadingTools,
                   connectionStatus, notPanelVars>>

\* the views of the navigation tabs
Views == {"query", "architect"}

ViewInit == currentView = "query"

\* a call of the panel whose component has been unmounted: what it settles
\* with is set on no component
Unmounted(call) ==
    IF call.pc = "awaiting" THEN [call EXCEPT !.pc = "unmounted"] ELSE call

\* onClick of a navigation tab that is not the current one. Towards the
\* architecture view the <main> of the query view is unmounted, the cleanup
\* of MCPServerControls running disconnectAll() up to its await, and
\* ArchitectView is mounted with its initial state; towards the query view
\* ArchitectView is unmounted and MCPServerControls is mounted with its
\* initial state, its effect starting loadAvailableTools(). The state of an
\* unmounted component is written as its initial state.
SetCurrentView(view) ==
    /\ view # currentView
    /\ currentView' = view
    /\ activeFlow' = "DIRECT"
    /\ offset' = 0
    /\ tooltip' = JsNull
    /\ activeServer' = "demographics"
    /\ selectedTool' = ""
    /\ panelLoading' = FALSE
    /\ panelResult' = JsNull
    /\ availableTools' = NoTools
    /\ connectionStatus' = [k \in ServerKeys |-> FALSE]
    /\ IF view = "architect"
       THEN /\ Len(closers) < MaxClosers
            /\ isLoadingTools' = FALSE
            /\ panelError' = JsNull
            /\ panelCalls' = [k \in 1..Len(panelCalls) |-> Unmounted(panelCalls[k])]
            /\ closers' = Append(closers,
                   [kind |-> "disconnectAll", url |-> "", client |-> 0,
                    pending |-> Entries, threw |-> {}, pc |-> "closing"])
            /\ closeCalls' = closeCalls \cup Entries
            /\ UNCHANGED <<conns, calls>>
       ELSE /\ LoadAvailableTools("demographics")
            /\ UNCHANGED closeVars
    /\ UNCHANGED <<storeVars, session, clients, queryVars, toolVars, serverVars,
                   auditVars>>

\* the architecture view with the navigation tabs; a connect of the manager
\* resolves whichever view is shown
FlowNext ==
    \/ \E view \in Views : SetCurrentView(view)
    \/ \E c \in 1..MaxCalls : ConnectResolves(c)
    \/ \E f \in FlowType : SetActiveFlow(f)
    \/ Tick
    \/ \E l \in AllLabels : HandleMouseEnter(l)
    \/ HandleMouseLeave
    \/ \E l \in AllLabels : HandleTokenClick(l)
    \/ CloseTooltip

\* the panel with the navigation tabs and the manager its calls run in
PanelNext ==
    \/ \E view \in Views : SetCurrentView(view)
    \/ \E key \in ServerKeys : SelectServer(key)
    \/ Refresh
    \/ \E toolId \in UNION {ListedTools(k) \cup ConfigTools(k) : k \in ServerKeys} \cup {""} :
          HandleToolChange(toolId)
    \/ HandleExecute
    \/ \E c \in 1..MaxCalls : ConnectResolves(c)
    \/ \E c \in 1..MaxCalls : SendRequest(c)
    \/ \E c \in 1..MaxCalls, m \in ConnectCauses : ConnectRejects(c, m)
    \/ \E c \in 1..MaxCalls : RequestResolves(c)
    \/ \E c \in 1..MaxCalls, m \in RequestCauses : RequestRejects(c, m)
    \/ \E k \in 1..MaxCalls : ListToolsSettles(k)
    \/ \E k \in 1..MaxCalls : CallToolSettles(k)
    \/ \E k \in 1..MaxClosers, threw \in SUBSET (1..MaxCalls) : DisconnectAllSettles(k, threw)

(***************************************************************************)
(* zod: z.object({...}).parse(args) for fields of type string and number   *)
(***************************************************************************)
\* one field of a schema; default is undefined when the schema gives none
Field(key, type, optional, default) ==
    [key |-> key, type |-> type, optional |-> optional, default |-> default]

ZodIssue(path, expected, received) ==
    [code |-> "invalid_type", expected |-> expected, received |-> received,
     path |-> path,
     message |-> IF received = "undefined" THEN "Required"
                 ELSE "Expected " \o expected \o ", received " \o received]

PathJson(path) ==
    IF path = <<>> THEN "[]" ELSE "[\n      \"" \o path[1] \o "\"\n    ]"

IssueJson(i) ==
    "  {\n    \"code\": \"" \o i.code
    \o "\",\n    \"expected\": \"" \o i.expected
    \o "\",\n    \"received\": \"" \o i.received
    \o "\",\n    \"path\": " \o PathJson(i.path)
    \o ",\n    \"message\": \"" \o i.message \o "\"\n  }"

RECURSIVE JoinIssues(_)
JoinIssues(issues) ==
    IF Len(issues) = 1 THEN IssueJson(issues[1])
    ELSE IssueJson(issues[1]) \o ",\n" \o JoinIssues(Tail(issues))

\* ZodError.message: JSON.stringify(issues, null, 2)
ZodMessage(issues) == "[\n" \o JoinIssues(issues) \o "\n]"

FieldOk(f, v) ==
    IF v.t = "undefined" THEN f.optional ELSE v.t = f.type

\* the issues of the fields that fail, in the order of the schema
FieldIssues(schema, args) ==
    LET checked == [i \in 1..Len(schema) |->
                      [ok |-> FieldOk(schema[i], Prop(args, schema[i].key)),
                       issue |-> ZodIssue(<<schema[i].key>>, schema[i].type,
                                          Prop(args, schema[i].key).t)]]
        failed == SelectSeq(checked, LAMBDA e : ~e.ok)
    IN  [i \in 1..Len(failed) |-> failed[i].issue]

\* the parsed value of one field: the default replaces undefined
FieldValue(f, v) == IF v.t = "undefined" THEN f.default ELSE v

\* schema.parse(args): the parsed object (unknown keys stripped, defaults
\* applied) or a thrown ZodError
ZodParse(schema, args) ==
    IF args.t # "object"
    THEN Thrown("ZodError", ZodMessage(<<ZodIssue(<<>>, "object", args.t)>>))
    ELSE IF FieldIssues(schema, args) # <<>>
    THEN Thrown("ZodError", ZodMessage(FieldIssues(schema, args)))
    ELSE LET value(i) == FieldValue(schema[i], Prop(args, schema[i].key))
             keys == {schema[i].key : i \in {j \in 1..Len(schema) :
                                              value(j).t # "undefined"}}
             at(k) == CHOOSE i \in 1..Len(schema) : schema[i].key = k
         IN  Returned(JsObject([k \in keys |-> value(at(k))]))

(***************************************************************************)
(* patient-demographics: the static data and the two tool functions        *)
(***************************************************************************)
\* patientPools. row is the position of the record in the source array; the
\* fields no tool reads (age_distribution, demographics,
\* disease_prevalence_rate) travel with the record.
PatientPools == <<
    [row |-> 1, region_id |-> "US-NE-001", region_name |-> "Boston Metropolitan Area",
     disease |-> "Type 2 Diabetes", estimated_population |-> 45000],
    [row |-> 2, region_id |-> "US-NE-001", region_name |-> "Boston Metropolitan Area",
     disease |-> "Hypertension", estimated_population |-> 78000],
    [row |-> 3, region_id |-> "US-NE-002", region_name |-> "New York Metropolitan Area",
     disease |-> "Type 2 Diabetes", estimated_population |-> 125000],
    [row |-> 4, region_id |-> "US-NE-003", region_name |-> "Philadelphia Metropolitan Area",
     disease |-> "Type 2 Diabetes", estimated_population |-> 52000],
    [row |-> 5, region_id |-> "US-CA-001", region_name |-> "San Francisco Bay Area",
     disease |-> "Lung Cancer", estimated_population |-> 8500],
    [row |-> 6, region_id |-> "US-CA-002", region_name |-> "Los Angeles Metropolitan Area",
     disease |-> "Lung Cancer", estimated_population |-> 15000],
    [row |-> 7, region_id |-> "US-TX-001", region_name |-> "Houston Metropolitan Area",
     disease |-> "Type 2 Diabetes", estimated_population |-> 95000],
    [row |-> 8, region_id |-> "US-FL-001", region_name |-> "Miami Metropolitan Area",
     disease |-> "Type 2 Diabetes", estimated_population |-> 72000],
    [row |-> 9, region_id |-> "US-IL-001", region_name |-> "Chicago Metropolitan Area",
     disease |-> "Hypertension", estimated_population |-> 145000],
    [row |-> 10, region_id |-> "US-WA-001", region_name |-> "Seattle Metropolitan Area",
     disease |-> "Metabolic Disorder", estimated_population |-> 3200]>>

\* regionDemographics, with row as above (healthcare_access,
\* enrollment_velocity and socioeconomic travel with the record)
RegionDemographics == <<
    [row |-> 1, region_id |-> "US-NE-001", region_name |-> "Boston Metropolitan Area",
     total_population |-> 4800000],
    [row |-> 2, region_id |-> "US-NE-002", region_name |-> "New York Metropolitan Area",
     total_population |-> 19500000],
    [row |-> 3, region_id |-> "US-NE-003", region_name |-> "Philadelphia Metropolitan Area",
     total_population |-> 6200000],
    [row |-> 4, region_id |-> "US-CA-001", region_name |-> "San Francisco Bay Area",
     total_population |-> 7700000],
    [row |-> 5, region_id |-> "US-CA-002", region_name |-> "Los Angeles Metropolitan Area",
     total_population |-> 13200000],
    [row |-> 6, region_id |-> "US-TX-001", region_name |-> "Houston Metropolitan Area",
     total_population |-> 7100000],
    [row |-> 7, region_id |-> "US-FL-001", region_name |-> "Miami Metropolitan Area",
     total_population |-> 6200000],
    [row |-> 8, region_id |-> "US-IL-001", region_name |-> "Chicago Metropolitan Area",
     total_population |-> 9500000],
    [row |-> 9, region_id |-> "US-WA-001", region_name |-> "Seattle Metropolitan Area",
     total_population |-> 4000000]>>

SearchPatientPoolsSchema == <<
    Field("disease", "string", TRUE, JsUndefined),
    Field("region", "string", FALSE, JsUndefined),
    Field("min_population", "number", TRUE, JsNumber(0))>>

GetDemographicsByRegionSchema == <<
    Field("region_id", "string", FALSE, JsUndefined),
    Field("disease_filter", "string", TRUE, JsUndefined)>>

RegionMap ==
    ("northeast" :> "US-NE") @@ ("us-northeast" :> "US-NE") @@
    ("california" :> "US-CA") @@ ("us-california" :> "US-CA") @@
    ("texas" :> "US-TX") @@ ("us-texas" :> "US-TX") @@
    ("florida" :> "US-FL") @@ ("us-florida" :> "US-FL") @@
    ("illinois" :> "US-IL") @@ ("us-illinois" :> "US-IL") @@
    ("washington" :> "US-WA") @@ ("us-washington" :> "US-WA")

\* the members an object literal inherits whose names are all lower case:
\* the Object constructor and Object.prototype itself
ObjectPrototype ==
    ("constructor" :> [t |-> "function", name |-> "Object"]) @@
    ("__proto__" :> [t |-> "object", fields |-> <<>>])

\* String(v), as startsWith applies it to its argument
StringOf(v) ==
    CASE v.t = "string" -> v.s
      [] v.t = "function" -> "function " \o v.name \o "() { [native code] }"
      [] v.t = "object" -> "[object Object]"

\* regionMap[normalized] || region.toUpperCase(); the lookup also finds the
\* inherited members of regionMap, which are truthy
NormalizeRegion(region) ==
    LET normalized == ReplaceWhitespaceRuns(ToLowerCase(region), FALSE)
    IN  IF normalized \in DOMAIN RegionMap
        THEN JsString(RegionMap[normalized])
        ELSE IF normalized \in DOMAIN ObjectPrototype
        THEN ObjectPrototype[normalized]
        ELSE JsString(ToUpperCase(region))

\* what reading a property of undefined throws
UndefinedReadError(property) ==
    Thrown("TypeError",
           "Cannot read properties of undefined (reading '" \o property \o "')")

\* `min_population = 0` in the destructuring
NumberOr(v, default) == IF v.t = "undefined" THEN default ELSE v.n

\* mutant: the population filter excludes a pool of exactly min_population
SearchPatientPoolsStrictPopulation(params) ==
    LET disease == Prop(params, "disease")
        region == Prop(params, "region").s
        min_population == NumberOr(Prop(params, "min_population"), 0)
        regionPrefix == NormalizeRegion(region)
        matches(pool) ==
            /\ Includes(ToLowerCase(pool.disease), ToLowerCase(disease.s))
            /\ \/ StartsWith(pool.region_id, StringOf(regionPrefix))
               \/ Includes(ToLowerCase(pool.region_name), ToLowerCase(region))
            /\ pool.estimated_population > min_population
        matchingPools == SelectSeq(PatientPools, matches)
    IN  IF disease.t = "undefined"
        THEN UndefinedReadError("toLowerCase")
        ELSE Returned([pools |-> matchingPools,
                       total_count |-> Len(matchingPools),
                       query |-> params])

\* searchPatientPools(params). The filter callback evaluates
\* disease.toLowerCase() for the first pool, which throws when params has no
\* disease.
SearchPatientPools(params) ==
    LET disease == Prop(params, "disease")
        region == Prop(params, "region").s
        min_population == NumberOr(Prop(params, "min_population"), 0)
        regionPrefix == NormalizeRegion(region)
        matches(pool) ==
            /\ Includes(ToLowerCase(pool.disease), ToLowerCase(disease.s))
            /\ \/ StartsWith(pool.region_id, StringOf(regionPrefix))
               \/ Includes(ToLowerCase(pool.region_name), ToLowerCase(region))
            /\ pool.estimated_population >= min_population
        matchingPools == SelectSeq(PatientPools, matches)
    IN  IF disease.t = "undefined"
        THEN UndefinedReadError("toLowerCase")
        ELSE Returned([pools |-> matchingPools,
                       total_count |-> Len(matchingPools),
                       query |-> params])

\* getDemographicsByRegion(params)
GetDemographicsByRegion(params) ==
    LET region_id == Prop(params, "region_id").s
        disease_filter == Prop(params, "disease_filter")
        found == SelectSeq(RegionDemographics, LAMBDA r : r.region_id = region_id)
        relevantPools ==
            SelectSeq(PatientPools, LAMBDA pool :
                /\ pool.region_id = region_id
                /\ Includes(ToLowerCase(pool.disease), ToLowerCase(disease_filter.s)))
    IN  IF found = <<>>
        THEN Thrown("Error", "Region not found: " \o region_id)
        ELSE Returned([disease_specific_data |->
                           IF Truthy(disease_filter) THEN JsArray(relevantPools)
                           ELSE JsNull] @@ found[1])

(***************************************************************************)
(* site-performance: the data and the three tool functions                 *)
(***************************************************************************)
\* The arrays of data.js (sites, siteCapabilities, enrollmentHistories) are an
\* input of the model: records of the types Site, SiteCapabilities and
\* EnrollmentHistory, with the fields the tools read.
Site(id, name, city, state, region_id, capacity, areas) ==
    [site_id |-> id, site_name |-> name,
     location |-> [city |-> city, state |-> state, country |-> "USA",
                   region_id |-> region_id],
     capacity |-> [patient_enrollment_capacity |-> capacity],
     therapeutic_areas |-> areas]

Trial(id, area, year) ==
    [trial_id |-> id, therapeutic_area |-> area, completion_year |-> year]

SiteDataA ==
    [sites |-> <<
        Site("SITE-001", "Boston Clinical Research", "Boston", "MA",
             "US-NE-001", 500, <<"Endocrinology", "Cardiology">>),
        Site("SITE-002", "Bay Area Oncology", "San Francisco", "CA",
             "US-CA-001", 300, <<"Oncology">>)>>,
     siteCapabilities |-> <<
        [site_id |-> "SITE-001", site_name |-> "Boston Clinical Research"],
        [site_id |-> "SITE-002", site_name |-> "Bay Area Oncology"]>>,
     enrollmentHistories |-> <<
        [site_id |-> "SITE-001", site_name |-> "Boston Clinical Research",
         historical_trials |-> <<Trial("NCT-1", "Endocrinology", 2021),
                                 Trial("NCT-2", "Cardiology", 2023),
                                 Trial("NCT-3", "Endocrinology", 2025)>>,
         aggregate_metrics |-> [total_trials_completed |-> 3]],
        [site_id |-> "SITE-002", site_name |-> "Bay Area Oncology",
         historical_trials |-> <<>>,
         aggregate_metrics |-> [total_trials_completed |-> 0]]>>]

SiteDataB ==
    [sites |-> <<
        Site("SITE-001", "Boston Clinical Research", "Boston", "MA",
             "US-NE-001", 500, <<"Endocrinology", "Cardiology">>),
        Site("SITE-003", "Omaha Trials Unit", "Omaha", "NE",
             "US-MW-001", 200, <<"Oncology">>)>>,
     siteCapabilities |-> <<
        [site_id |-> "SITE-001", site_name |-> "Boston Clinical Research"]>>,
     enrollmentHistories |-> <<
        [site_id |-> "SITE-003", site_name |-> "Omaha Trials Unit",
         historical_trials |-> <<Trial("NCT-4", "Oncology", 2024)>>,
         aggregate_metrics |-> [total_trials_completed |-> 1]]>>]

SiteDatasets == {SiteDataA, SiteDataB}

\* new Date().getFullYear() at the time of a call
CurrentYears == {2025, 2026}

SearchSitesSchema == <<
    Field("region", "string", FALSE, JsUndefined),
    Field("therapeutic_area", "string", TRUE, JsUndefined),
    Field("min_capacity", "number", TRUE, JsNumber(0))>>

GetSiteCapabilitiesSchema == <<
    Field("site_id", "string", FALSE, JsUndefined)>>

GetEnrollmentHistorySchema == <<
    Field("site_id", "string", FALSE, JsUndefined),
    Field("years", "number", TRUE, JsNumber(3))>>

SiteRegionMap ==
    ("northeast" :> "US-NE") @@ ("us-northeast" :> "US-NE") @@
    ("california" :> "US-CA") @@ ("us-california" :> "US-CA") @@
    ("texas" :> "US-TX") @@ ("us-texas" :> "US-TX") @@
    ("florida" :> "US-FL") @@ ("us-florida" :> "US-FL") @@
    ("illinois" :> "US-IL") @@ ("us-illinois" :> "US-IL") @@
    ("washington" :> "US-WA") @@ ("us-washington" :> "US-WA")

\* normalizeRegion of tools.ts
SiteNormalizeRegion(region) ==
    LET normalized == ReplaceWhitespaceRuns(ToLowerCase(region), FALSE)
    IN  IF normalized \in DOMAIN SiteRegionMap
        THEN JsString(SiteRegionMap[normalized])
        ELSE IF normalized \in DOMAIN ObjectPrototype
        THEN ObjectPrototype[normalized]
        ELSE JsString(ToUpperCase(region))

\* searchSites(params) on the data db
SearchSites(db, params) ==
    LET region == Prop(params, "region").s
        therapeutic_area == Prop(params, "therapeutic_area")
        min_capacity == NumberOr(Prop(params, "min_capacity"), 0)
        regionPrefix == SiteNormalizeRegion(region)
        matches(site) ==
            /\ \/ StartsWith(site.location.region_id, StringOf(regionPrefix))
               \/ ToLowerCase(site.location.state) = ToLowerCase(region)
               \/ Includes(ToLowerCase(region), ToLowerCase(site.location.state))
            /\ \/ ~Truthy(therapeutic_area)
               \/ \E a \in 1..Len(site.therapeutic_areas) :
                    Includes(ToLowerCase(site.therapeutic_areas[a]),
                             ToLowerCase(therapeutic_area.s))
            /\ site.capacity.patient_enrollment_capacity >= min_capacity
        matchingSites == SelectSeq(db.sites, matches)
    IN  Returned([sites |-> matchingSites,
                  total_count |-> Len(matchingSites),
                  query |-> params])

\* mutant: an unknown site is answered with the first capabilities record
GetSiteCapabilitiesAnyRecord(db, params) ==
    LET site_id == Prop(params, "site_id").s
        found == SelectSeq(db.siteCapabilities, LAMBDA cap : cap.site_id = site_id)
    IN  IF found = <<>>
        THEN Returned(db.siteCapabilities[1])
        ELSE Returned(found[1])

\* getSiteCapabilities(params)
GetSiteCapabilities(db, params) ==
    LET site_id == Prop(params, "site_id").s
        found == SelectSeq(db.siteCapabilities, LAMBDA cap : cap.site_id = site_id)
    IN  IF found = <<>>
        THEN Thrown("Error", "Site capabilities not found: " \o site_id)
        ELSE Returned(found[1])

\* mutant: the cutoff year lies years after the current year
GetEnrollmentHistoryCutoffAhead(db, params, currentYear) ==
    LET site_id == Prop(params, "site_id").s
        years == NumberOr(Prop(params, "years"), 3)
        found == SelectSeq(db.enrollmentHistories, LAMBDA hist : hist.site_id = site_id)
        cutoffYear == currentYear + years
        filteredTrials ==
            SelectSeq(found[1].historical_trials,
                      LAMBDA trial : trial.completion_year >= cutoffYear)
    IN  IF found = <<>>
        THEN Thrown("Error", "Enrollment history not found: " \o site_id)
        ELSE Returned([site_id |-> found[1].site_id,
                       site_name |-> found[1].site_name,
                       historical_trials |-> filteredTrials,
                       aggregate_metrics |-> found[1].aggregate_metrics,
                       years_included |-> years])

\* getEnrollmentHistory(params), evaluated in the calendar year currentYear
GetEnrollmentHistory(db, params, currentYear) ==
    LET site_id == Prop(params, "site_id").s
        years == NumberOr(Prop(params, "years"), 3)
        found == SelectSeq(db.enrollmentHistories, LAMBDA hist : hist.site_id = site_id)
        cutoffYear == currentYear - years
        filteredTrials ==
            SelectSeq(found[1].historical_trials,
                      LAMBDA trial : trial.completion_year >= cutoffYear)
    IN  IF found = <<>>
        THEN Thrown("Error", "Enrollment history not found: " \o site_id)
        ELSE Returned([site_id |-> found[1].site_id,
                       site_name |-> found[1].site_name,
                       historical_trials |-> filteredTrials,
                       aggregate_metrics |-> found[1].aggregate_metrics,
                       years_included |-> years])

(***************************************************************************)
(* The tools/list and tools/call handlers of createServer                  *)
(***************************************************************************)
MaxToolRuns == 2

DemographicsToolNames == <<"search_patient_pools", "get_demographics_by_region">>

PerformanceToolNames ==
    <<"search_sites", "get_site_capabilities", "get_enrollment_history">>

\* the ListToolsRequestSchema handlers
DemographicsListTools == [tools |-> DemographicsToolNames]

PerformanceListTools == [tools |-> PerformanceToolNames]

\* An object as JSON.stringify and JSON.parse see it: its members and the
\* order in which they were set (keys). No key of the model is an array
\* index, which JavaScript would list first.
JsOrdered(keys, fields) == [t |-> "object", keys |-> keys, fields |-> fields]

\* the object with the members of rec named by keys, set in that order; the
\* members in numbers hold numbers, the others strings
JsRecord(rec, keys, numbers) ==
    JsOrdered(keys, [k \in {keys[i] : i \in 1..Len(keys)} |->
                        IF k \in numbers THEN JsNumber(rec[k]) ELSE JsString(rec[k])])

\* an object whose members were set in the order of order
InOrder(obj, order) ==
    JsOrdered(SelectSeq(order, LAMBDA k : k \in DOMAIN obj.fields), obj.fields)

\* a record of patientPools; row stands for the members after
\* estimated_population
JsPool(pool) ==
    JsRecord(pool, <<"region_id", "region_name", "disease", "estimated_population",
                     "row">>,
             {"row", "estimated_population"})

JsSite(site) ==
    JsOrdered(<<"site_id", "site_name", "location", "capacity", "therapeutic_areas">>,
              [site_id |-> JsString(site.site_id),
               site_name |-> JsString(site.site_name),
               location |-> JsRecord(site.location,
                                     <<"city", "state", "country", "region_id">>, {}),
               capacity |-> JsRecord(site.capacity, <<"patient_enrollment_capacity">>,
                                     {"patient_enrollment_capacity"}),
               therapeutic_areas |->
                   JsArray([i \in 1..Len(site.therapeutic_areas) |->
                               JsString(site.therapeutic_areas[i])])])

JsTrial(trial) ==
    JsRecord(trial, <<"trial_id", "therapeutic_area", "completion_year">>,
             {"completion_year"})

\* The value a tool function returns, as a JavaScript value: the result
\* objects of searchPatientPools, searchSites, getEnrollmentHistory and
\* getDemographicsByRegion, and the record getSiteCapabilities returns. The
\* members of an object literal are set in the order it is written, a spread
\* record first; query is the params object, whose members schema.parse sets
\* in the order of the schema (a caller who writes one more writes it last).
JsValue(result) ==
    CASE "pools" \in DOMAIN result ->
            JsOrdered(<<"pools", "total_count", "query">>,
                      [pools |-> JsArray([i \in 1..Len(result.pools) |->
                                             JsPool(result.pools[i])]),
                       total_count |-> JsNumber(result.total_count),
                       query |-> InOrder(result.query,
                                         <<"disease", "region", "min_population">>)])
      [] "sites" \in DOMAIN result ->
            JsOrdered(<<"sites", "total_count", "query">>,
                      [sites |-> JsArray([i \in 1..Len(result.sites) |->
                                             JsSite(result.sites[i])]),
                       total_count |-> JsNumber(result.total_count),
                       query |-> InOrder(result.query,
                                         <<"region", "therapeutic_area", "min_capacity",
                                           "state">>)])
      [] "historical_trials" \in DOMAIN result ->
            JsOrdered(<<"site_id", "site_name", "historical_trials",
                        "aggregate_metrics", "years_included">>,
                      [site_id |-> JsString(result.site_id),
                       site_name |-> JsString(result.site_name),
                       historical_trials |->
                           JsArray([i \in 1..Len(result.historical_trials) |->
                                       JsTrial(result.historical_trials[i])]),
                       aggregate_metrics |->
                           JsRecord(result.aggregate_metrics,
                                    <<"total_trials_completed">>,
                                    {"total_trials_completed"}),
                       years_included |-> JsNumber(result.years_included)])
      [] "total_population" \in DOMAIN result ->
            JsOrdered(SelectSeq(<<"region_id", "region_name", "total_population",
                                  "row", "disease_specific_data">>,
                                LAMBDA k : k \in DOMAIN result),
                      [k \in DOMAIN result |->
                        CASE k \in {"region_id", "region_name"} -> JsString(result[k])
                          [] k \in {"row", "total_population"} -> JsNumber(result[k])
                          [] k = "disease_specific_data" ->
                                IF result[k].t = "null" THEN JsNull
                                ELSE JsArray([i \in 1..Len(result[k].items) |->
                                                 JsPool(result[k].items[i])])])
      [] OTHER ->
            JsRecord(result, <<"site_id", "site_name">>, {})

\* A JSON text is represented by the sequence of its tokens: the six
\* structural characters, string and number literals and null. (The white
\* space of the indentation is no token.)
Token(c) == [tok |-> c]

RECURSIVE Concat(_)
Concat(seqs) == IF seqs = <<>> THEN <<>> ELSE Head(seqs) \o Concat(Tail(seqs))

\* JSON.stringify leaves out the properties that hold undefined or a function
IsWritten(v) == v.t \notin {"undefined", "function"}

RECURSIVE JsonTokens(_)
\* the tokens JSON.stringify writes for a value that IsWritten: the members
\* of an object in the order they were set; in an array it writes null for an
\* item that is not written
JsonTokens(v) ==
    CASE v.t = "object" ->
            LET keys == SelectSeq(v.keys, LAMBDA k : IsWritten(v.fields[k]))
                member(i) ==
                    (IF i > 1 THEN <<Token(",")>> ELSE <<>>)
                    \o <<[tok |-> "string", s |-> keys[i]], Token(":")>>
                    \o JsonTokens(v.fields[keys[i]])
            IN  <<Token("{")>> \o Concat([i \in 1..Len(keys) |-> member(i)])
                \o <<Token("}")>>
      [] v.t = "array" ->
            LET item(i) ==
                    (IF i > 1 THEN <<Token(",")>> ELSE <<>>)
                    \o (IF IsWritten(v.items[i]) THEN JsonTokens(v.items[i])
                        ELSE <<Token("null")>>)
            IN  <<Token("[")>> \o Concat([i \in 1..Len(v.items) |-> item(i)])
                \o <<Token("]")>>
      [] v.t = "string" -> <<[tok |-> "string", s |-> v.s]>>
      [] v.t = "number" -> <<[tok |-> "number", n |-> v.n]>>
      [] v.t = "null" -> <<Token("null")>>

\* JSON.stringify(result, null, 2) of a tool function's result
JsonText(result) == [t |-> "json", tokens |-> JsonTokens(JsValue(result))]

\* a text that spells no JSON document, such as `Error: ${error.message}`
PlainText(s) == [t |-> "plain", s |-> s]

NoParse == [ok |-> FALSE]

RECURSIVE ParseValue(_), ParseMembers(_, _), ParseItems(_, _)
\* one JSON value at the head of toks: the value read and the tokens left
ParseValue(toks) ==
    IF toks = <<>> THEN NoParse
    ELSE LET head == Head(toks)
             rest == Tail(toks)
         IN  CASE head.tok = "string" ->
                    [ok |-> TRUE, value |-> JsString(head.s), rest |-> rest]
               [] head.tok = "number" ->
                    [ok |-> TRUE, value |-> JsNumber(head.n), rest |-> rest]
               [] head.tok = "null" ->
                    [ok |-> TRUE, value |-> JsNull, rest |-> rest]
               [] head.tok = "{" ->
                    IF rest # <<>> /\ Head(rest).tok = "}"
                    THEN [ok |-> TRUE, value |-> JsOrdered(<<>>, <<>>),
                          rest |-> Tail(rest)]
                    ELSE ParseMembers(rest, JsOrdered(<<>>, <<>>))
               [] head.tok = "[" ->
                    IF rest # <<>> /\ Head(rest).tok = "]"
                    THEN [ok |-> TRUE, value |-> JsArray(<<>>), rest |-> Tail(rest)]
                    ELSE ParseItems(rest, <<>>)
               [] OTHER -> NoParse

\* the members of an object after those of obj: `"key": value`, then `,` or
\* `}`; a key read again keeps its place and takes the later value
ParseMembers(toks, obj) ==
    IF Len(toks) < 2 THEN NoParse
    ELSE IF toks[1].tok # "string" \/ toks[2].tok # ":" THEN NoParse
    ELSE LET read == ParseValue(SubSeq(toks, 3, Len(toks)))
         IN  IF ~read.ok THEN NoParse
             ELSE IF read.rest = <<>> THEN NoParse
             ELSE LET all == JsOrdered(IF toks[1].s \in DOMAIN obj.fields
                                       THEN obj.keys
                                       ELSE Append(obj.keys, toks[1].s),
                                       (toks[1].s :> read.value) @@ obj.fields)
                      next == Head(read.rest)
                  IN  CASE next.tok = "}" ->
                             [ok |-> TRUE, value |-> all,
                              rest |-> Tail(read.rest)]
                        [] next.tok = "," -> ParseMembers(Tail(read.rest), all)
                        [] OTHER -> NoParse

\* the items of an array after items: a value, then `,` or `]`
ParseItems(toks, items) ==
    LET read == ParseValue(toks)
    IN  IF ~read.ok THEN NoParse
        ELSE IF read.rest = <<>> THEN NoParse
        ELSE LET all == Append(items, read.value)
                 next == Head(read.rest)
             IN  CASE next.tok = "]" ->
                        [ok |-> TRUE, value |-> JsArray(all),
                         rest |-> Tail(read.rest)]
                   [] next.tok = "," -> ParseItems(Tail(read.rest), all)
                   [] OTHER -> NoParse

\* JSON.parse(text): the value of the one JSON document the text spells, or a
\* SyntaxError
JsonParse(text) ==
    IF text.t # "json" THEN Thrown("SyntaxError", "Unexpected token")
    ELSE LET read == ParseValue(text.tokens)
         IN  IF ~read.ok THEN Thrown("SyntaxError", "Unexpected token")
             ELSE IF read.rest # <<>> THEN Thrown("SyntaxError", "Unexpected token")
             ELSE Returned(read.value)

\* the result handleExecute shows for a tools/call response: each text item
\* JSON-decoded when it decodes, a single item unwrapped
HandleExecuteResult(response) ==
    IF "content" \notin DOMAIN response THEN response
    ELSE LET decoded(item) ==
                 IF item.type = "text"
                 THEN IF JsonParse(item.text).t = "return"
                      THEN JsonParse(item.text).value
                      ELSE item.text
                 ELSE item
             resultData == [i \in 1..Len(response.content) |->
                               decoded(response.content[i])]
         IN  IF Len(resultData) = 1 THEN resultData[1] ELSE resultData

TextContent(text) == <<[type |-> "text", text |-> text]>>

\* error instanceof Error: Error and its subclasses TypeError and ZodError
InstanceOfError(e) == e.name \in {"Error", "TypeError", "ZodError"}

\* the case block of one tool: schema.parse(args), then the tool function;
\* lookups counts the calls of the tool function
Lookup(outcome) == [outcome |-> outcome, lookups |-> 1]
NoLookup(outcome) == [outcome |-> outcome, lookups |-> 0]

\* mutant: the search case calls the tool function with the arguments as
\* received instead of the parsed ones
DemographicsExecuteRawArgs(name, args) ==
    CASE name = "search_patient_pools" ->
            LET params == ZodParse(SearchPatientPoolsSchema, args)
            IN  IF params.t = "throw" THEN NoLookup(params)
                ELSE Lookup(SearchPatientPools(args))
      [] name = "get_demographics_by_region" ->
            LET params == ZodParse(GetDemographicsByRegionSchema, args)
            IN  IF params.t = "throw" THEN NoLookup(params)
                ELSE Lookup(GetDemographicsByRegion(params.value))
      [] OTHER ->
            NoLookup(Thrown("Error", "Unknown tool: " \o name))

\* the try block of the patient-demographics CallToolRequestSchema handler
DemographicsExecute(name, args) ==
    CASE name = "search_patient_pools" ->
            LET params == ZodParse(SearchPatientPoolsSchema, args)
            IN  IF params.t = "throw" THEN NoLookup(params)
                ELSE Lookup(SearchPatientPools(params.value))
      [] name = "get_demographics_by_region" ->
            LET params == ZodParse(GetDemographicsByRegionSchema, args)
            IN  IF params.t = "throw" THEN NoLookup(params)
                ELSE Lookup(GetDemographicsByRegion(params.value))
      [] OTHER ->
            NoLookup(Thrown("Error", "Unknown tool: " \o name))

\* the try block of the site-performance CallToolRequestSchema handler
PerformanceExecute(db, currentYear, name, args) ==
    CASE name = "search_sites" ->
            LET params == ZodParse(SearchSitesSchema, args)
            IN  IF params.t = "throw" THEN NoLookup(params)
                ELSE Lookup(SearchSites(db, params.value))
      [] name = "get_site_capabilities" ->
            LET params == ZodParse(GetSiteCapabilitiesSchema, args)
            IN  IF params.t = "throw" THEN NoLookup(params)
                ELSE Lookup(GetSiteCapabilities(db, params.value))
      [] name = "get_enrollment_history" ->
            LET params == ZodParse(GetEnrollmentHistorySchema, args)
            IN  IF params.t = "throw" THEN NoLookup(params)
                ELSE Lookup(GetEnrollmentHistory(db, params.value, currentYear))
      [] OTHER ->
            NoLookup(Thrown("Error", "Unknown tool: " \o name))

\* mutant: the catch block reports only the errors the tool functions throw
\* themselves and rethrows validation errors
CallToolResultRethrowsZod(outcome) ==
    IF outcome.t = "return"
    THEN Returned([content |-> TextContent(JsonText(outcome.value))])
    ELSE IF outcome.name = "Error"
         THEN Returned([content |-> TextContent(PlainText("Error: " \o outcome.message)),
                        isError |-> TRUE])
         ELSE outcome

\* what the handler returns or throws for the outcome of its try block: the
\* result as JSON text, or the catch block's isError payload
CallToolResult(outcome) ==
    IF outcome.t = "return"
    THEN Returned([content |-> TextContent(JsonText(outcome.value))])
    ELSE IF InstanceOfError(outcome)
         THEN Returned([content |-> TextContent(PlainText("Error: " \o outcome.message)),
                        isError |-> TRUE])
         ELSE outcome

DemographicsCallTool(name, args) ==
    CallToolResult(DemographicsExecute(name, args).outcome)

PerformanceCallTool(db, currentYear, name, args) ==
    CallToolResult(PerformanceExecute(db, currentYear, name, args).outcome)

\* getToolParameters(toolId): the inputs the form renders for a tool
Param(name, type) == [name |-> name, type |-> type]

GetToolParameters(toolId) ==
    CASE toolId = "search_patient_pools" ->
           {Param("region", "text"), Param("min_population", "number"),
            Param("disease", "text")}
      [] toolId = "get_demographics_by_region" ->
           {Param("region", "text"), Param("disease_filter", "text")}
      [] toolId = "search_sites" ->
           {Param("region", "text"), Param("therapeutic_area", "text"),
            Param("min_capacity", "number")}
      [] toolId = "get_site_capabilities" ->
           {Param("site_id", "text")}
      [] toolId = "get_enrollment_history" ->
           {Param("site_id", "text"), Param("year", "number")}
      [] OTHER -> {}

\* toolParams after handleParamChange ran for every input of the form with a
\* non-empty value: text inputs give strings, number inputs give Number(value)
IsFilledForm(toolId, args) ==
    /\ args.t = "object"
    /\ DOMAIN args.fields = {p.name : p \in GetToolParameters(toolId)}
    /\ \A p \in GetToolParameters(toolId) :
          IF p.type = "number"
          THEN args.fields[p.name].t = "number"
          ELSE args.fields[p.name].t = "string" /\ args.fields[p.name].s # ""

(***************************************************************************)
(* Handler runs: the requests the MCP server objects are handed            *)
(***************************************************************************)
\* the object with the properties of f that are not undefined
MakeObject(f) == JsObject([k \in {j \in DOMAIN f : f[j].t # "undefined"} |-> f[k]])

SearchPatientPoolsArgs ==
    {JsUndefined} \cup
    {MakeObject(("disease" :> d) @@ ("region" :> r) @@ ("min_population" :> m)) :
        d \in {JsUndefined, JsString("diabetes"), JsString("LUNG"), JsNumber(7)},
        r \in {JsUndefined, JsString("Northeast"), JsString("us  northeast"),
               JsString("boston"), JsString("US-CA-002"), JsString("California"),
               JsString("Constructor"), JsNull},
        m \in {JsUndefined, JsNumber(8500), JsNumber(50000), JsString("many")}}

GetDemographicsByRegionArgs ==
    {JsUndefined} \cup
    {MakeObject(("region_id" :> i) @@ ("disease_filter" :> f) @@ ("region" :> r)) :
        i \in {JsUndefined, JsString("US-NE-001"), JsString("US-XX-999"),
               JsString("us-ne-001"), JsNumber(1)},
        f \in {JsUndefined, JsString("hyper"), JsString(""), JsNull},
        r \in {JsUndefined, JsString("US-NE-001")}}

SearchSitesArgs ==
    {JsUndefined} \cup
    {MakeObject(("region" :> r) @@ ("therapeutic_area" :> a) @@
                ("min_capacity" :> c) @@ ("state" :> st)) :
        r \in {JsUndefined, JsString("Northeast"), JsString("northeast"),
               JsString("US-NE-001"), JsString("ma"), JsNumber(1)},
        a \in {JsUndefined, JsString("onco"), JsString(""), JsNumber(3)},
        c \in {JsUndefined, JsNumber(400), JsString("400")},
        st \in {JsUndefined, JsString("MA")}}

GetSiteCapabilitiesArgs ==
    {JsUndefined} \cup
    {MakeObject(("site_id" :> i)) :
        i \in {JsUndefined, JsString("SITE-001"), JsString("SITE-002"),
               JsString("SITE-999"), JsNull}}

GetEnrollmentHistoryArgs ==
    {JsUndefined} \cup
    {MakeObject(("site_id" :> i) @@ ("years" :> y) @@ ("year" :> z)) :
        i \in {JsUndefined, JsString("SITE-001"), JsString("SITE-003"),
               JsString("SITE-999")},
        y \in {JsUndefined, JsNumber(0), JsNumber(1), JsNumber(5), JsString("5")},
        z \in {JsUndefined, JsNumber(1)}}

UnknownToolArgs == {JsUndefined, MakeObject("region" :> JsString("Northeast"))}

Call(name, args) == [name |-> name, arguments |-> args]

\* tools/call requests: each tool of a server with arguments of its own
\* shape, and names the server does not know (among them the other server's)
DemographicsCalls ==
    {Call("search_patient_pools", a) : a \in SearchPatientPoolsArgs}
    \cup {Call("get_demographics_by_region", a) : a \in GetDemographicsByRegionArgs}
    \cup {Call(n, a) : n \in {"search_sites", "drop_pools"}, a \in UnknownToolArgs}

PerformanceCalls ==
    {Call("search_sites", a) : a \in SearchSitesArgs}
    \cup {Call("get_site_capabilities", a) : a \in GetSiteCapabilitiesArgs}
    \cup {Call("get_enrollment_history", a) : a \in GetEnrollmentHistoryArgs}
    \cup {Call(n, a) : n \in {"search_patient_pools", ""}, a \in UnknownToolArgs}

ToolInit ==
    /\ siteData = JsUndefined
    /\ toolRun = [method |-> "none"]
    /\ toolRunCount = 0

\* the site-performance process starts: tools.ts imports the arrays of data.js
LoadData(db) ==
    /\ siteData = JsUndefined
    /\ siteData' = db
    /\ UNCHANGED <<toolRun, toolRunCount, notToolVars>>

\* the run of the patient-demographics handler on each tools/call request
DemographicsRuns ==
    [call \in DemographicsCalls |->
        LET run == DemographicsExecute(call.name, call.arguments) IN
        [server |-> "patient-demographics", method |-> "tools/call",
         name |-> call.name, args |-> call.arguments, year |-> 0,
         tool |-> run.outcome, lookups |-> run.lookups,
         response |-> CallToolResult(run.outcome)]]

\* a tools/call request reaches the patient-demographics handler
DemographicsCall(call) ==
    /\ toolRunCount < MaxToolRuns
    /\ toolRunCount' = toolRunCount + 1
    /\ toolRun' = DemographicsRuns[call]
    /\ UNCHANGED <<siteData, notToolVars>>

\* the run of the site-performance handler on each tools/call request, for
\* the data loaded and the year of the call
PerformanceRuns ==
    [db \in SiteDatasets, currentYear \in CurrentYears, call \in PerformanceCalls |->
        LET run == PerformanceExecute(db, currentYear, call.name, call.arguments) IN
        [server |-> "site-performance", method |-> "tools/call",
         name |-> call.name, args |-> call.arguments, year |-> currentYear,
         tool |-> run.outcome, lookups |-> run.lookups,
         response |-> CallToolResult(run.outcome)]]

\* a tools/call request reaches the site-performance handler
PerformanceCall(call, currentYear) ==
    /\ siteData # JsUndefined
    /\ toolRunCount < MaxToolRuns
    /\ toolRunCount' = toolRunCount + 1
    /\ toolRun' = PerformanceRuns[siteData, currentYear, call]
    /\ UNCHANGED <<siteData, notToolVars>>

\* a tools/list request reaches a server's handler; the site-performance
\* handlers exist once its modules, data.js among them, are loaded
ListTools(server) ==
    /\ server = "site-performance" => siteData # JsUndefined
    /\ toolRunCount < MaxToolRuns
    /\ toolRunCount' = toolRunCount + 1
    /\ toolRun' =
         [server |-> server, method |-> "tools/list",
          response |-> Returned(IF server = "patient-demographics"
                                THEN DemographicsListTools
                                ELSE PerformanceListTools)]
    /\ UNCHANGED <<siteData, notToolVars>>

ToolNext ==
    \/ \E db \in SiteDatasets : LoadData(db)
    \/ \E call \in DemographicsCalls : DemographicsCall(call)
    \/ \E call \in PerformanceCalls, y \in CurrentYears : PerformanceCall(call, y)
    \/ \E server \in {"patient-demographics", "site-performance"} : ListTools(server)

(***************************************************************************)
(* The tool server process: POST /mcp                                      *)
(***************************************************************************)
MaxRequests == 2

\* the two entry points of the patient-demographics server: index.ts mounts
\* the route handler alone, part_012 mounts mcpAuthServer.protect() before it
EntryPoints == {"index.ts", "part_012"}

\* The bearer tokens of the model and what the authorization server's keys,
\* the issuer and the clock say about each: whether it decodes as a JWT,
\* whether signature and issuer verify, whether it has expired, its claims.
\* "jwt-badpayload" has a JWT header and a payload that is no JSON:
\* jwt.decode throws on it where it returns null for "garbage".
Jwts ==
    ("garbage" :>
        [decodes |-> FALSE, verifies |-> FALSE, expired |-> FALSE,
         payload |-> JsNull]) @@
    ("jwt-badpayload" :>
        [decodes |-> FALSE, verifies |-> FALSE, expired |-> FALSE,
         payload |-> JsNull]) @@
    ("jwt-expired" :>
        [decodes |-> TRUE, verifies |-> TRUE, expired |-> TRUE,
         payload |-> [sub |-> UserSub,
                     scopes |-> {"email", "openid", "profile", "query_agent"}]]) @@
    ("jwt-agent" :>
        [decodes |-> TRUE, verifies |-> TRUE, expired |-> FALSE,
         payload |-> [sub |-> AgentSub, scopes |-> {"openid"}]]) @@
    ("jwt-user" :>
        [decodes |-> TRUE, verifies |-> TRUE, expired |-> FALSE,
         payload |-> [sub |-> UserSub,
                     scopes |-> {"email", "openid", "profile", "query_agent"}]])

\* req.headers['authorization']
AuthorizationHeaders ==
    {JsUndefined} \cup {JsString("Bearer " \o tok) : tok \in DOMAIN Jwts}

\* req.body of the requests the model sends: tools/list, a tools/call that
\* finds pools, a tools/call whose tool raises
RequestBodies ==
    {[method |-> "tools/list"],
     [method |-> "tools/call",
      params |-> Call("search_patient_pools",
                      MakeObject(("disease" :> JsString("diabetes")) @@
                                 ("region" :> JsString("Northeast"))))],
     [method |-> "tools/call",
      params |-> Call("get_demographics_by_region",
                      MakeObject("region_id" :> JsString("US-XX-999")))]}

\* the bearer token of an Authorization header, undefined when it has none
BearerToken(header) ==
    IF header.t = "string" /\ StartsWith(header.s, "Bearer ")
    THEN JsString(Substring(header.s, 7))
    ELSE JsUndefined

\* mcpAuthServer.protect(): the request passes to the handler when it carries
\* a bearer token that decodes, verifies against the issuer and has not
\* expired; any other request is answered 401. The middleware is configured
\* with baseUrl, issuer and resource only: it looks at no scope.
Protect(header) ==
    LET token == BearerToken(header) IN
    IF /\ token.t = "string"
       /\ token.s \in DOMAIN Jwts
       /\ Jwts[token.s].decodes
       /\ Jwts[token.s].verifies
       /\ ~Jwts[token.s].expired
    THEN "next"
    ELSE "401"

\* jwt.decode(token) throws: JSON.parse of the payload of a token whose header
\* says typ JWT
JwtDecodeThrows(token) == token = "jwt-badpayload"

\* mutant: the entry is put in front of the log
LogRequestDetailsInFront(log, req, now) ==
    LET token == BearerToken(req.authorization)
        decoded == IF token.s \in DOMAIN Jwts /\ Jwts[token.s].decodes
                   THEN Jwts[token.s].payload
                   ELSE JsNull
        sub == IF decoded = JsNull \/ "sub" \notin DOMAIN decoded
               THEN JsUndefined ELSE JsString(decoded.sub)
        act == IF decoded = JsNull \/ "act" \notin DOMAIN decoded
               THEN JsUndefined ELSE JsString(decoded.act.sub)
        params == IF "params" \in DOMAIN req.body
                  THEN req.body.params
                  ELSE [name |-> JsUndefined, arguments |-> JsUndefined]
    IN  IF token.t = "string" /\ ~JwtDecodeThrows(token.s)
        THEN <<[timestamp |-> now,
                toolName |-> params.name,
                sub |-> sub,
                act |-> act,
                args |-> params.arguments]>> \o log
        ELSE log

\* logRequestDetails(req), given the log so far and the time of the call:
\* the log after it. jwt.decode verifies nothing and returns null for a
\* token that is no JWT; when it throws, the catch block logs to the console
\* and no entry is pushed.
LogRequestDetails(log, req, now) ==
    LET token == BearerToken(req.authorization)
        decoded == IF token.s \in DOMAIN Jwts /\ Jwts[token.s].decodes
                   THEN Jwts[token.s].payload
                   ELSE JsNull
        sub == IF decoded = JsNull \/ "sub" \notin DOMAIN decoded
               THEN JsUndefined ELSE JsString(decoded.sub)
        act == IF decoded = JsNull \/ "act" \notin DOMAIN decoded
               THEN JsUndefined ELSE JsString(decoded.act.sub)
        params == IF "params" \in DOMAIN req.body
                  THEN req.body.params
                  ELSE [name |-> JsUndefined, arguments |-> JsUndefined]
    IN  IF token.t = "string" /\ ~JwtDecodeThrows(token.s)
        THEN Append(log, [timestamp |-> now,
                          toolName |-> params.name,
                          sub |-> sub,
                          act |-> act,
                          args |-> params.arguments])
        ELSE log

ServerInit ==
    /\ requests = <<>>
    /\ authLogs = <<>>
    /\ entryPoint = "none"

\* node dist/index.js: one of the entry points starts listening
Listen(entry) ==
    /\ entryPoint = "none"
    /\ entryPoint' = entry
    /\ UNCHANGED <<requests, authLogs, notServerVars>>

\* a POST /mcp request arrives; express.json() has parsed its body. Where
\* protect() is mounted the request waits for it; elsewhere the route handler
\* runs at once up to its first await: it makes the transport of the request
\* and calls mcpServer.connect(transport).
Arrive(header, body) ==
    /\ entryPoint # "none"
    /\ Len(requests) < MaxRequests
    /\ requests' = Append(requests,
          [authorization |-> header, body |-> body,
           pc |-> IF entryPoint = "index.ts" THEN "handler" ELSE "protect",
           handlerRan |-> FALSE, lookups |-> 0,
           status |-> 0, response |-> JsUndefined])
    /\ UNCHANGED <<authLogs, entryPoint, notServerVars>>

\* protect() settles: the 401 response, or next(), which runs the route
\* handler up to its first await, `await mcpServer.connect(transport)`
ProtectSettles(r) ==
    /\ r \in 1..Len(requests)
    /\ requests[r].pc = "protect"
    /\ requests' =
         IF Protect(requests[r].authorization) = "next"
         THEN [requests EXCEPT ![r].pc = "handler"]
         ELSE [requests EXCEPT ![r].pc = "done", ![r].status = 401,
                               ![r].response = [error |-> "unauthorized"]]
    /\ UNCHANGED <<authLogs, entryPoint, notServerVars>>

\* what an awaited call of the SDK can reject with: an Error, or a value that
\* is no Error
Rejections == {[t |-> "Error", message |-> "transport failure"],
               JsString("transport failure")}

\* the catch block of the route handler: res.status(500).json({...})
CatchResponse(error) ==
    [error |-> "Internal server error",
     message |-> IF error.t = "Error" THEN error.message ELSE "Unknown error"]

\* `await mcpServer.connect(transport)` rejects: the catch block answers 500
ConnectRejected(r, error) ==
    /\ r \in 1..Len(requests)
    /\ requests[r].pc = "handler"
    /\ requests' = [requests EXCEPT ![r].pc = "done", ![r].status = 500,
                                    ![r].response = CatchResponse(error)]
    /\ UNCHANGED <<authLogs, entryPoint, notServerVars>>

\* `await transport.handleRequest(req, res, req.body)` rejects before a
\* registered handler has run: the catch block answers 500
HandleRequestRejected(r, error) ==
    /\ r \in 1..Len(requests)
    /\ requests[r].pc = "connected"
    /\ requests' = [requests EXCEPT ![r].pc = "done", ![r].status = 500,
                                    ![r].response = CatchResponse(error)]
    /\ UNCHANGED <<authLogs, entryPoint, notServerVars>>

\* `await mcpServer.connect(transport)` resolves: the route handler goes on
\* and calls transport.handleRequest(req, res, req.body)
Connect(r) ==
    /\ r \in 1..Len(requests)
    /\ requests[r].pc = "handler"
    /\ requests' = [requests EXCEPT ![r].pc = "connected"]
    /\ UNCHANGED <<authLogs, entryPoint, notServerVars>>

\* `await transport.handleRequest(req, res, req.body)` resolves: the handler
\* that createServer registered for the method of the message
\* (setRequestHandler with ListToolsRequestSchema, CallToolRequestSchema) has
\* run on it, and the response carries what the handler returned.
HandleRequest(r) ==
    /\ r \in 1..Len(requests)
    /\ requests[r].pc = "connected"
    /\ LET body == requests[r].body
           run == IF body.method = "tools/call"
                  THEN DemographicsExecute(body.params.name, body.params.arguments)
                  ELSE NoLookup(Returned(DemographicsListTools))
           result == IF body.method = "tools/call"
                     THEN DemographicsCallTool(body.params.name, body.params.arguments)
                     ELSE Returned(DemographicsListTools)
       IN  requests' = [requests EXCEPT
                          ![r].pc = "done",
                          ![r].handlerRan = TRUE,
                          ![r].lookups = run.lookups,
                          ![r].status = 200,
                          ![r].response = [result |-> result.value]]
    /\ UNCHANGED <<authLogs, entryPoint, notServerVars>>

ServerNext ==
    \/ \E entry \in EntryPoints : Listen(entry)
    \/ \E header \in AuthorizationHeaders, body \in RequestBodies :
            Arrive(header, body)
    \/ \E r \in 1..MaxRequests : ProtectSettles(r)
    \/ \E r \in 1..MaxRequests : Connect(r)
    \/ \E r \in 1..MaxRequests : HandleRequest(r)
    \/ \E r \in 1..MaxRequests, error \in Rejections : ConnectRejected(r, error)
    \/ \E r \in 1..MaxRequests, error \in Rejections : HandleRequestRejected(r, error)

(***************************************************************************)
(* The audit-log module and its callers                                    *)
(***************************************************************************)
MaxLogCalls == 3

\* the requests handed to logRequestDetails: without an Authorization header,
\* with a bearer token that is no JWT, with the JWT of a user
AuditRequests ==
    {[authorization |-> header, body |-> body] :
        header \in {JsUndefined, JsString("Bearer garbage"),
                    JsString("Bearer jwt-badpayload"), JsString("Bearer jwt-user")},
        body \in RequestBodies}

\* getAuthLogs(): the array itself
GetAuthLogs(log) == log

AuditInit ==
    /\ clock = 0
    /\ logCall = [op |-> "none"]
    /\ logCallCount = 0

\* a caller runs logRequestDetails(req); the function has no await, so it
\* runs to its end before any other call starts. new Date() reads the
\* millisecond of the previous call or a later one.
LogRequest(req, tick) ==
    /\ logCallCount < MaxLogCalls
    /\ clock' = clock + tick
    /\ authLogs' = LogRequestDetails(authLogs, req, clock')
    /\ logCall' = [op |-> "logRequestDetails", req |-> req]
    /\ logCallCount' = logCallCount + 1
    /\ UNCHANGED notAuditVars

\* a caller runs getAuthLogs()
ReadLogs ==
    /\ logCallCount < MaxLogCalls
    /\ logCall' = [op |-> "getAuthLogs", result |-> GetAuthLogs(authLogs)]
    /\ logCallCount' = logCallCount + 1
    /\ UNCHANGED <<clock, authLogs, notAuditVars>>

AuditNext ==
    \/ \E req \in AuditRequests, tick \in {0, 1} : LogRequest(req, tick)
    \/ ReadLogs

(***************************************************************************)
(* Specifications                                                          *)
(***************************************************************************)
Init ==
    /\ StoreInit /\ FlowInit /\ ClientInit /\ QueryInit /\ ToolInit /\ ServerInit
    /\ AuditInit /\ CloseInit /\ PanelInit /\ ViewInit

SpecStore == Init /\ [][StoreNext]_vars

SpecFlow == Init /\ [][FlowNext]_vars

SpecClient == Init /\ [][ClientNext]_vars

SpecQuery == Init /\ [][QueryNext]_vars

SpecTools == Init /\ [][ToolNext]_vars

SpecServer == Init /\ [][ServerNext]_vars

SpecAudit == Init /\ [][AuditNext]_vars

SpecHistory == Init /\ [][HistoryNext]_vars

SpecClose == Init /\ [][CloseNext]_vars

SpecPanel == Init /\ [][PanelNext]_vars

\* C4: for each flow exactly one token is attached to the calls toward the two
\* tool servers, and it is the one of the flow table: DIRECT the user's token
\* (sub = user, no act), AGENT the agent's own token (sub = agent, no act),
\* OBO the delegated token (sub = user, act.sub = agent).
C4_AttachedTokenMatchesFlowTable ==
    /\ activeFlow \in FlowType
    /\ Cardinality(AttachedTokens(activeFlow)) = 1
    /\ \A l \in AttachedTokens(activeFlow) :
         LET c == TokenClaims(l.type) IN
         CASE activeFlow = "DIRECT" ->
                c.sub = UserSub /\ "act" \notin DOMAIN c /\ l.link = "SPA->MCP"
           [] activeFlow = "AGENT" ->
                c.sub = AgentSub /\ "act" \notin DOMAIN c /\ l.link = "Agent->MCP"
           [] activeFlow = "OBO" ->
                /\ c.sub = UserSub
                /\ "act" \in DOMAIN c
                /\ c.act.sub = AgentSub
                /\ l.link = "Agent->MCP"

\* C4 witness: the OBO flow is selected and the tooltip of its token on the
\* Agent -> MCP link is pinned open, showing the delegated claims.
C4_Witness ==
    /\ activeFlow = "OBO"
    /\ TooltipPinned
    /\ tooltip.title = "OBO Token"
    /\ tooltip.content = TokenClaims("obo")
    /\ offset > 0

\* C23: the active flow is always one of DIRECT, AGENT, OBO; it starts as
\* DIRECT and changes only by an explicit selection, a click on one of the
\* three flow buttons: no other step (animation tick, tooltip hover, click or
\* close, anything else) changes it; every flow can be selected from every
\* other wherever the selector is shown.
C23_FlowChangesOnlyBySelection ==
    /\ activeFlow = "DIRECT"
    /\ [](activeFlow \in FlowType)
    /\ [](ArchitectShown => \A f \in FlowType : ENABLED SetActiveFlow(f))
    /\ [][activeFlow' # activeFlow => \E f \in FlowType : SetActiveFlow(f)]_vars

(***************************************************************************)
(* Claims about the tool server process                                    *)
(***************************************************************************)
\* the scope the servers' documentation requires of a token
RequiredScope == "query_agent"

\* the request carries a bearer token that passes validation
ValidBearer(req) ==
    LET token == BearerToken(req.authorization) IN
    /\ token.t = "string"
    /\ token.s \in DOMAIN Jwts
    /\ Jwts[token.s].decodes /\ Jwts[token.s].verifies /\ ~Jwts[token.s].expired

ScopesOf(req) == Jwts[BearerToken(req.authorization).s].payload.scopes

\* C1: every tools/call request that carries a valid bearer token lacking the
\* required scope is answered FORBIDDEN (403), and the tool's dataset lookup
\* function is never invoked for that request.
C1_MissingScopeIsForbidden ==
    \A r \in 1..Len(requests) :
        (/\ requests[r].body.method = "tools/call"
         /\ ValidBearer(requests[r])
         /\ RequiredScope \notin ScopesOf(requests[r])) =>
            /\ requests[r].lookups = 0
            /\ requests[r].pc = "done" => requests[r].status = 403

\* C2: a POST /mcp request whose bearer token is absent, malformed or expired
\* is rejected with 401 before its body is interpreted: no tools/list or
\* tools/call handler runs for it, on any entry point.
C2_InvalidTokenNeverReachesHandler ==
    \A r \in 1..Len(requests) :
        ~ValidBearer(requests[r]) =>
            /\ ~requests[r].handlerRan
            /\ requests[r].pc \in {"protect", "done"}
            /\ requests[r].pc = "done" => requests[r].status = 401

\* C3: a request appends an audit-log entry exactly when it has passed token
\* validation: each such request adds exactly one entry before its response
\* is sent, whatever the tool then does, and a request whose token is missing
\* or fails validation adds none.
C3_OneLogEntryPerValidatedRequest ==
    LET validated == {r \in 1..Len(requests) : ValidBearer(requests[r])}
        answered == {r \in validated : requests[r].pc = "done"}
    IN  /\ Cardinality(answered) <= Len(authLogs)
        /\ Len(authLogs) <= Cardinality(validated)

(***************************************************************************)
(* Claims about the tool handlers                                          *)
(***************************************************************************)
IsErrorPayload(message) ==
    Returned([content |-> <<[type |-> "text",
                             text |-> PlainText("Error: " \o message)]>>,
              isError |-> TRUE])

\* the names a server's handler knows
KnownTools(server) ==
    IF server = "patient-demographics"
    THEN {DemographicsToolNames[i] : i \in 1..Len(DemographicsToolNames)}
    ELSE {PerformanceToolNames[i] : i \in 1..Len(PerformanceToolNames)}

\* the required string argument of each tool
RequiredArg(name) ==
    CASE name \in {"search_patient_pools", "search_sites"} -> "region"
      [] name = "get_demographics_by_region" -> "region_id"
      [] OTHER -> "site_id"

\* the identifiers the exact-lookup tool `name` finds
KnownIds(name) ==
    CASE name = "get_demographics_by_region" ->
            {RegionDemographics[i].region_id : i \in 1..Len(RegionDemographics)}
      [] name = "get_site_capabilities" ->
            {siteData.siteCapabilities[i].site_id :
                i \in 1..Len(siteData.siteCapabilities)}
      [] name = "get_enrollment_history" ->
            {siteData.enrollmentHistories[i].site_id :
                i \in 1..Len(siteData.enrollmentHistories)}
      [] OTHER -> {}

NotFoundPrefix(name) ==
    CASE name = "get_demographics_by_region" -> "Region not found: "
      [] name = "get_site_capabilities" -> "Site capabilities not found: "
      [] OTHER -> "Enrollment history not found: "

\* C8: a tools/call request that reaches execution and whose tool raises
\* (unknown region or site identifier, arguments that fail the declared input
\* schema, unknown tool name, or any other error of the tool function) is
\* answered by a returned payload marked isError: true whose text carries the
\* error message; the handler itself never throws, on either tool server.
C8_ToolErrorsAreIsErrorPayloads ==
    toolRun.method = "tools/call" =>
        /\ toolRun.response.t = "return"
        /\ toolRun.tool.t = "throw" =>
              toolRun.response = IsErrorPayload(toolRun.tool.message)
        /\ toolRun.tool.t = "return" =>
              "isError" \notin DOMAIN toolRun.response.value
        \* an unknown tool name
        /\ toolRun.name \notin KnownTools(toolRun.server) =>
              toolRun.response = IsErrorPayload("Unknown tool: " \o toolRun.name)
        \* arguments that fail the schema: none at all, or the required
        \* string missing or of another type
        /\ (/\ toolRun.name \in KnownTools(toolRun.server)
            /\ \/ toolRun.args.t # "object"
               \/ Prop(toolRun.args, RequiredArg(toolRun.name)).t # "string") =>
              /\ toolRun.tool.name = "ZodError"
              /\ toolRun.lookups = 0
              /\ toolRun.response.value.isError
              /\ StartsWith(toolRun.response.value.content[1].text.s,
                            "Error: [\n  {\n    \"code\": \"invalid_type\"")
        \* an identifier no record has
        /\ (/\ toolRun.name \in KnownTools(toolRun.server)
            /\ toolRun.tool.t = "throw"
            /\ toolRun.tool.name = "Error") =>
              /\ Prop(toolRun.args, RequiredArg(toolRun.name)).s
                    \notin KnownIds(toolRun.name)
              /\ toolRun.response =
                    IsErrorPayload(NotFoundPrefix(toolRun.name)
                        \o Prop(toolRun.args, RequiredArg(toolRun.name)).s)

\* C8 witness: on the site-performance server the second handler run looked
\* up a site identifier no record has and was answered with the isError
\* payload carrying the not-found message.
C8_Witness ==
    /\ toolRunCount = 2
    /\ toolRun.method = "tools/call"
    /\ toolRun.server = "site-performance"
    /\ toolRun.name = "get_site_capabilities"
    /\ toolRun.lookups = 1
    /\ toolRun.response = IsErrorPayload("Site capabilities not found: SITE-999")

\* the latest handler run is a search_patient_pools call
IsPoolSearch ==
    /\ toolRun.method = "tools/call"
    /\ toolRun.server = "patient-demographics"
    /\ toolRun.name = "search_patient_pools"
    /\ toolRun.args.t = "object"

\* the region predicate of search_patient_pools
PoolInRegion(pool, region) ==
    \/ StartsWith(pool.region_id, StringOf(NormalizeRegion(region)))
    \/ Includes(ToLowerCase(pool.region_name), ToLowerCase(region))

\* the rows of the pools a search returned
PoolRows(result) == {result.pools[j].row : j \in 1..Len(result.pools)}

\* C11: search_patient_pools accepts a call that omits disease: the call
\* succeeds and returns the pools selected by the region and population
\* predicates alone.
C11_SearchWithoutDiseaseSucceeds ==
    (/\ IsPoolSearch
     /\ Prop(toolRun.args, "disease").t = "undefined"
     /\ Prop(toolRun.args, "region").t = "string"
     /\ Prop(toolRun.args, "min_population").t \in {"undefined", "number"}) =>
        /\ toolRun.tool.t = "return"
        /\ "isError" \notin DOMAIN toolRun.response.value
        /\ PoolRows(toolRun.tool.value) =
             {i \in 1..Len(PatientPools) :
                /\ PoolInRegion(PatientPools[i], Prop(toolRun.args, "region").s)
                /\ PatientPools[i].estimated_population >=
                      NumberOr(Prop(toolRun.args, "min_population"), 0)}

\* C12: for every disease, region and min_population, search_patient_pools
\* returns exactly the pools of the static dataset that satisfy all three
\* predicates (disease name contains the disease ignoring case; region_id
\* starts with the normalized region prefix or region_name contains the region
\* ignoring case; estimated_population >= min_population), in dataset order;
\* total_count is the number of pools returned and query echoes the arguments.
C12_SearchReturnsExactlyTheMatchingPools ==
    (/\ IsPoolSearch
     /\ Prop(toolRun.args, "disease").t = "string"
     /\ Prop(toolRun.args, "region").t = "string"
     /\ Prop(toolRun.args, "min_population").t = "number") =>
        /\ toolRun.tool.t = "return"
        /\ LET result == toolRun.tool.value
               disease == Prop(toolRun.args, "disease").s
               region == Prop(toolRun.args, "region").s
               min_population == Prop(toolRun.args, "min_population").n
           IN  /\ PoolRows(result) =
                    {i \in 1..Len(PatientPools) :
                       /\ Includes(ToLowerCase(PatientPools[i].disease),
                                   ToLowerCase(disease))
                       /\ PoolInRegion(PatientPools[i], region)
                       /\ PatientPools[i].estimated_population >= min_population}
               /\ \A j \in 1..Len(result.pools) :
                    /\ result.pools[j] = PatientPools[result.pools[j].row]
                    /\ j > 1 => result.pools[j - 1].row < result.pools[j].row
               /\ result.total_count = Len(result.pools)
               /\ result.query = toolRun.args

\* C12 witness: a search for "LUNG" in "California" with min_population 8500
\* returned both Californian lung-cancer pools, among them the pool of
\* exactly 8500 patients.
C12_Witness ==
    /\ IsPoolSearch
    /\ toolRun.args = MakeObject(("disease" :> JsString("LUNG")) @@
                                 ("region" :> JsString("California")) @@
                                 ("min_population" :> JsNumber(8500)))
    /\ toolRun.tool.t = "return"
    /\ PoolRows(toolRun.tool.value) = {5, 6}
    /\ toolRun.tool.value.total_count = 2

\* the latest handler run is a search_sites call that passed the schema
IsSiteSearch ==
    /\ toolRun.method = "tools/call"
    /\ toolRun.server = "site-performance"
    /\ toolRun.name = "search_sites"
    /\ toolRun.tool.t = "return"

\* C13: for every site dataset, search_sites with region "Northeast",
\* "northeast" or "US-NE-001" returns only sites whose region code starts
\* with US-NE.
C13_NortheastSearchReturnsNortheastSites ==
    (/\ IsSiteSearch
     /\ Prop(toolRun.args, "region") \in
          {JsString("Northeast"), JsString("northeast"), JsString("US-NE-001")}) =>
        \A j \in 1..Len(toolRun.tool.value.sites) :
            StartsWith(toolRun.tool.value.sites[j].location.region_id, "US-NE")

\* s with every hyphen written as a space
RECURSIVE SpacesForHyphens(_)
SpacesForHyphens(s) ==
    IF s = "" THEN ""
    ELSE (IF Head(s) = "-" THEN " " ELSE Head(s)) \o SpacesForHyphens(Tail(s))

\* region arguments that differ from region only in letter case, or only in
\* whitespace where region has a hyphen
RegionVariants(region) ==
    {ToLowerCase(region), ToUpperCase(region), SpacesForHyphens(region)}

\* params with another region argument
WithRegion(params, region) ==
    JsObject([params.fields EXCEPT !["region"] = JsString(region)])

\* C14: two region arguments that differ only in letter case, or only in
\* using whitespace where the other uses a hyphen, give the same result set
\* in search_patient_pools and in search_sites.
C14_RegionSpellingDoesNotChangeResults ==
    /\ (IsPoolSearch /\ toolRun.tool.t = "return") =>
          LET params == toolRun.tool.value.query
          IN  \A r \in RegionVariants(Prop(params, "region").s) :
                SearchPatientPools(WithRegion(params, r)).value.pools =
                    toolRun.tool.value.pools
    /\ IsSiteSearch =>
          LET params == toolRun.tool.value.query
          IN  \A r \in RegionVariants(Prop(params, "region").s) :
                SearchSites(siteData, WithRegion(params, r)).value.sites =
                    toolRun.tool.value.sites

\* the region names of the normalization table and their region codes
RegionCodes ==
    ("northeast" :> "US-NE") @@ ("california" :> "US-CA") @@
    ("texas" :> "US-TX") @@ ("florida" :> "US-FL") @@
    ("illinois" :> "US-IL") @@ ("washington" :> "US-WA")

\* the code of a table name written with or without the us- prefix
TableCode(name) ==
    IF StartsWith(name, "us-") THEN RegionCodes[Substring(name, 3)]
    ELSE RegionCodes[name]

IsTableName(name) ==
    \/ name \in DOMAIN RegionCodes
    \/ StartsWith(name, "us-") /\ Substring(name, 3) \in DOMAIN RegionCodes

\* the latest handler run is a search whose region argument is a string
IsRegionSearch ==
    /\ toolRun.method = "tools/call"
    /\ toolRun.name \in {"search_patient_pools", "search_sites"}
    /\ toolRun.args.t = "object"
    /\ Prop(toolRun.args, "region").t = "string"

\* C15: normalizeRegion maps each table name (northeast, california, texas,
\* florida, illinois, washington, with or without the us- prefix, in any
\* letter case) to its region code, returns every other input upper-cased and
\* otherwise unchanged, is idempotent, and is the same function on both tool
\* servers.
C15_NormalizeRegionContract ==
    IsRegionSearch =>
        LET region == Prop(toolRun.args, "region").s
            name == ToLowerCase(region)
            result == NormalizeRegion(region)
        IN  /\ IsTableName(name) => result = JsString(TableCode(name))
            /\ ~IsTableName(name) => result = JsString(ToUpperCase(region))
            /\ result.t = "string" /\ NormalizeRegion(result.s) = result
            /\ SiteNormalizeRegion(region) = result

\* the latest handler run is a get_enrollment_history call that returned
IsHistoryReturned ==
    /\ toolRun.method = "tools/call"
    /\ toolRun.server = "site-performance"
    /\ toolRun.name = "get_enrollment_history"
    /\ toolRun.tool.t = "return"

\* the years values the monotonicity is compared over
MaxYears == 6
YearsValues == (0 - 1)..MaxYears

\* the trials get_enrollment_history returns for a site and a years value
TrialsOf(site_id, years, currentYear) ==
    LET result == GetEnrollmentHistory(siteData,
                      MakeObject(("site_id" :> JsString(site_id)) @@
                                 ("years" :> JsNumber(years))),
                      currentYear).value.historical_trials
    IN  {result[j] : j \in 1..Len(result)}

\* C16: for every existing site and all valid years values y1 <= y2 evaluated
\* in the same calendar year, the trial list returned by
\* get_enrollment_history with years = y1 is a subset of the one returned
\* with years = y2.
C16_HistoryIsMonotoneInYears ==
    IsHistoryReturned =>
        LET trials == toolRun.tool.value.historical_trials
        IN  \A y1 \in YearsValues :
                y1 <= toolRun.tool.value.years_included =>
                    TrialsOf(toolRun.tool.value.site_id, y1, toolRun.year) \subseteq
                        {trials[j] : j \in 1..Len(trials)}

\* C16 witness: the history of SITE-001 over 5 years holds its three trials,
\* the history over 1 year only one of them.
C16_Witness ==
    /\ IsHistoryReturned
    /\ toolRun.tool.value.site_id = "SITE-001"
    /\ toolRun.tool.value.years_included = 5
    /\ Len(toolRun.tool.value.historical_trials) = 3
    /\ Cardinality(TrialsOf("SITE-001", 1, toolRun.year)) = 1

ExactLookupTools ==
    {"get_demographics_by_region", "get_site_capabilities", "get_enrollment_history"}

\* the latest handler run called an exact-lookup tool with arguments that
\* passed its schema
IsExactLookup ==
    /\ toolRun.method = "tools/call"
    /\ toolRun.name \in ExactLookupTools
    /\ toolRun.name \in KnownTools(toolRun.server)
    /\ toolRun.lookups = 1

\* C17: the exact-lookup tools (get_demographics_by_region,
\* get_site_capabilities, get_enrollment_history) fail with a not-found error
\* exactly when no record has the given identifier; for an existing site
\* get_enrollment_history always succeeds whatever the years value, returning
\* a possibly empty trial list.
C17_NotFoundExactlyForUnknownIds ==
    IsExactLookup =>
        LET id == Prop(toolRun.args, RequiredArg(toolRun.name)).s
            notFound == IsErrorPayload(NotFoundPrefix(toolRun.name) \o id)
        IN  /\ id \notin KnownIds(toolRun.name) => toolRun.response = notFound
            /\ id \in KnownIds(toolRun.name) =>
                  /\ toolRun.tool.t = "return"
                  /\ "isError" \notin DOMAIN toolRun.response.value
                  /\ toolRun.name = "get_enrollment_history" =>
                        /\ toolRun.tool.value.site_id = id
                        /\ \A j \in 1..Len(toolRun.tool.value.historical_trials) :
                              toolRun.tool.value.historical_trials[j].completion_year
                                >= toolRun.year - toolRun.tool.value.years_included

\* C17 witness: the history of an existing site over 0 years succeeded with an
\* empty trial list.
C17_Witness ==
    /\ IsExactLookup
    /\ toolRun.name = "get_enrollment_history"
    /\ Prop(toolRun.args, "site_id").s \in KnownIds("get_enrollment_history")
    /\ Prop(toolRun.args, "years") = JsNumber(0)
    /\ toolRun.tool.t = "return"
    /\ toolRun.tool.value.historical_trials = <<>>

\* the input schema of a tool
SchemaOf(name) ==
    CASE name = "search_patient_pools" -> SearchPatientPoolsSchema
      [] name = "get_demographics_by_region" -> GetDemographicsByRegionSchema
      [] name = "search_sites" -> SearchSitesSchema
      [] name = "get_site_capabilities" -> GetSiteCapabilitiesSchema
      [] name = "get_enrollment_history" -> GetEnrollmentHistorySchema

\* the tool function called directly with params, in the calendar year and
\* on the data of the latest run
DirectCall(name, params) ==
    CASE name = "search_patient_pools" -> SearchPatientPools(params)
      [] name = "get_demographics_by_region" -> GetDemographicsByRegion(params)
      [] name = "search_sites" -> SearchSites(siteData, params)
      [] name = "get_site_capabilities" -> GetSiteCapabilities(siteData, params)
      [] name = "get_enrollment_history" ->
            GetEnrollmentHistory(siteData, params, toolRun.year)

\* the latest handler run is a successful tools/call
IsSuccessfulCall ==
    /\ toolRun.method = "tools/call"
    /\ toolRun.response.t = "return"
    /\ "isError" \notin DOMAIN toolRun.response.value

\* C18 (as stated): for every successful tools/call, the JSON-decoded text
\* field of the response equals the value the tool function returns when
\* called directly with the identical arguments, including the echoed query
\* and arguments for which the schema supplies a default.
C18_DecodedTextEqualsDirectCall ==
    IsSuccessfulCall =>
        HandleExecuteResult(toolRun.response.value) =
            JsValue(DirectCall(toolRun.name, toolRun.args).value)

\* C18 (amended): for every successful tools/call, the JSON-decoded text
\* field of the response equals the value the tool function returns when
\* called directly with the arguments as the tool's schema parses them, that
\* is with the schema defaults filled in and the undeclared keys removed; the
\* echoed query is that parsed object.
C18_DecodedTextEqualsCallOnParsedArguments ==
    IsSuccessfulCall =>
        HandleExecuteResult(toolRun.response.value) =
            JsValue(DirectCall(toolRun.name,
                               ZodParse(SchemaOf(toolRun.name), toolRun.args).value).value)

\* C18 witness: a successful search_patient_pools call without min_population
\* whose decoded text echoes the query with min_population 0.
C18_Witness ==
    /\ IsSuccessfulCall
    /\ toolRun.name = "search_patient_pools"
    /\ "min_population" \notin DOMAIN toolRun.args.fields
    /\ Prop(Prop(HandleExecuteResult(toolRun.response.value), "query"),
            "min_population") = JsNumber(0)
    /\ Prop(HandleExecuteResult(toolRun.response.value), "total_count").n > 0

(***************************************************************************)
(* Claims about the tool invocation client                                 *)
(***************************************************************************)
\* the connections created for a URL whose connect did not fail
LiveConns(url) ==
    {i \in 1..Len(conns) : conns[i].url = url /\ conns[i].state # "failed"}

\* C5: under any interleaving of listTools and callTool calls, including calls
\* that start while the first connection is still being established, at most
\* one client connection is created per serverUrl and every call for that URL
\* uses it.
C5_OneConnectionPerUrl ==
    \A url \in ServerUrls :
        /\ Cardinality(LiveConns(url)) <= 1
        /\ \A c \in 1..Len(calls) :
             (calls[c].url = url /\ calls[c].pc # "done")
                => calls[c].client \in LiveConns(url)

\* every request a call has put on the wire: the initialize request of the
\* connection it opened and its own tools/list or tools/call request
RequestsOf(c) ==
    (IF calls[c].connects > 0 THEN {conns[calls[c].client].initialize} ELSE {})
    \cup {calls[c].requests[i] : i \in 1..Len(calls[c].requests)}

\* C6: every tools/list and tools/call request sent by listTools and callTool
\* carries the selected bearer token as its credential.
C6_RequestsCarryBearerToken ==
    \A c \in 1..Len(calls) :
        \A r \in RequestsOf(c) :
            r.method \in {"tools/list", "tools/call"}
                => r.authorization = JsString("Bearer " \o session.s)

\* C9: callTool and listTools make a single attempt: at most one connect and
\* one request per invocation, and a failed connect or request ends the
\* invocation with an error whose message carries the cause's message.
C9_SingleAttempt ==
    \A c \in 1..Len(calls) :
        /\ calls[c].connects <= 1
        /\ Len(calls[c].requests) <= 1
        /\ calls[c].cause # "" =>
             /\ calls[c].pc = "done"
             /\ calls[c].outcome =
                  Thrown("Error", ErrorPrefix(calls[c].op) \o calls[c].cause)
        /\ calls[c].outcome.t = "throw" => calls[c].cause \in CauseMessages
        /\ calls[c].pc = "done" => calls[c].outcome.t \in {"return", "throw"}

\* C9 witness: one invocation failed while connecting and another failed on its
\* request after a successful connect, each after a single attempt.
C9_Witness ==
    \E c1, c2 \in 1..Len(calls) :
        /\ calls[c1].op = "listTools"
        /\ calls[c1].requests = <<>>
        /\ calls[c1].outcome = Thrown("Error", "Failed to list tools: Failed to fetch")
        /\ calls[c2].op = "callTool"
        /\ Len(calls[c2].requests) = 1
        /\ calls[c2].connects = 1
        /\ calls[c2].outcome =
             Thrown("Error", "Failed to call tool: Error POSTing to endpoint (HTTP 401)")

(***************************************************************************)
(* Claims about the callers that fetch with a bearer token                 *)
(***************************************************************************)
LastOfKind(kind) ==
    LET S == {i \in 1..Len(invs) : invs[i].kind = kind}
    IN  IF S = {} THEN 0 ELSE CHOOSE i \in S : \A j \in S : j <= i

\* C7: when the token required for a call cannot be obtained (the token getter
\* fails because no token is held), the invocation ends with an error and no
\* network request is issued for it.
C7_NoRequestWithoutToken ==
    /\ \A i \in 1..Len(invs) :
         /\ invs[i].tokenFailed =>
              /\ invs[i].pc = "done"
              /\ invs[i].fetches = <<>>
              /\ invs[i].outcome = JsError("Error", "No OAuth token available")
         /\ \A k \in 1..Len(invs[i].fetches) :
              \E tok \in SessionTokens :
                 invs[i].fetches[k].authorization = JsString("Bearer " \o tok.s)
    /\ LET q == LastOfKind("handleQuery") IN
         (q # 0 /\ invs[q].tokenFailed) =>
            /\ ~appLoading
            /\ appResults = JsNull
            /\ appError = JsError("Error", "No OAuth token available")
    /\ LET l == LastOfKind("fetchLogs") IN
         (l # 0 /\ invs[l].tokenFailed /\ \A j \in 1..Len(invs) :
                      invs[j].kind = "fetchLogs" => invs[j].pc = "done") =>
            /\ ~logsLoading
            /\ logsError.t = "object"

\* C7 witness: with no token held, a handleQuery and a fetchLogs invocation
\* both ended with the no-token error and issued no request, while an earlier
\* invocation, made with a token held, did issue its request.
C7_Witness ==
    /\ Len(invs) = 3
    /\ invs[1].fetches # <<>>
    /\ invs[2].kind = "handleQuery" /\ invs[2].tokenFailed /\ invs[2].fetches = <<>>
    /\ invs[3].kind = "fetchLogs" /\ invs[3].tokenFailed /\ invs[3].fetches = <<>>
    /\ appError = JsError("Error", "No OAuth token available")
    /\ logsError.t = "object"
    /\ session = JsNull

\* the saveTokens and clearToken operations applied so far, in order
StoreMutations ==
    SelectSeq(storeOps, LAMBDA o : o.op \in {"saveTokens", "clearToken"})

LastIsSave ==
    /\ StoreMutations # <<>>
    /\ StoreMutations[Len(StoreMutations)].op = "saveTokens"

LastSavedArg == StoreMutations[Len(StoreMutations)].arg

GetTokenJustCalled ==
    /\ storeOps # <<>>
    /\ storeOps[Len(storeOps)].op = "getToken"

NoTokenError == Thrown("Error", "No OAuth token available")

\* C10 (as stated): after any sequence of saveTokens and clearToken, getToken
\* returns the access token of the most recent saveTokens when no clearToken
\* followed it, and otherwise fails with the no-token-available error. (A save
\* whose argument carries no access token string is read as holding no token.)
C10_GetTokenFollowsLastSave ==
    LET expected == IF LastIsSave /\ AccessTokenOf(LastSavedArg).t = "string"
                    THEN Returned(AccessTokenOf(LastSavedArg))
                    ELSE NoTokenError
    IN  /\ GetToken(tokens) = expected
        /\ GetTokenJustCalled => lastGet = expected

\* C10 (amended): getToken returns the access token of the most recent
\* saveTokens when no clearToken followed it and that save's argument carried
\* a non-empty access_token; in every other case (before any save, after a
\* clearToken, after a save of null, undefined or of an object whose
\* access_token is missing, null or empty) it fails with the
\* no-token-available error.
C10_GetTokenFollowsLastUsableSave ==
    LET expected == IF LastIsSave /\ Truthy(AccessTokenOf(LastSavedArg))
                    THEN Returned(AccessTokenOf(LastSavedArg))
                    ELSE NoTokenError
    IN  /\ GetToken(tokens) = expected
        /\ GetTokenJustCalled => lastGet = expected

\* C10 witness: a save, a clear, a save of a usable token, then getToken
\* returned that token.
C10_Witness ==
    /\ Len(storeOps) = 3
    /\ storeOps[1].op = "clearToken"
    /\ storeOps[2].op = "saveTokens"
    /\ storeOps[2].arg = [t |-> "object", access_token |-> JsString("tokB")]
    /\ storeOps[3].op = "getToken"
    /\ lastGet = Returned(JsString("tokB"))

\* C22: every submitted agent query eventually leaves the loading state: it
\* ends with results, with an error, or with a "Request timed out" error once
\* the 120-second timer fires, also when the agent answers slowly or never
\* completes its response. Stated on finite runs: a query that waits for the
\* agent (for the response or for the rest of its body) has the timer armed,
\* so that the timer ends the wait when the agent does not.
C22_WaitingQueryHasArmedTimer ==
    \A i \in 1..Len(invs) :
        (invs[i].kind = "handleQuery" /\ invs[i].pc \in {"awaitFetch", "awaitJson"}) =>
            invs[i].timer = "armed"

\* the agent queries in flight
QueriesInFlight == {i \in 1..Len(invs) : invs[i].kind = "handleQuery" /\ invs[i].pc # "done"}

\* C25: in the query view isLoading is true exactly while an agent query is in
\* flight, and at most one query is in flight at a time: between the
\* submission of a query and its completion no second handleQuery can start
\* from the query form or the example cards.
C25_LoadingExactlyWhileOneQueryInFlight ==
    /\ appLoading <=> QueriesInFlight # {}
    /\ Cardinality(QueriesInFlight) <= 1

\* C25 witness: a second query is in flight after the first one completed.
C25_Witness ==
    /\ appLoading
    /\ \E i, j \in 1..Len(invs) :
          /\ i < j
          /\ invs[i].kind = "handleQuery" /\ invs[i].pc = "done"
          /\ invs[j].kind = "handleQuery" /\ invs[j].pc = "awaitFetch"

\* the agent queries that completed successfully, oldest first
SuccessfulQueries ==
    SelectSeq([i \in 1..Len(invs) |-> invs[i]],
              LAMBDA inv : inv.kind = "handleQuery" /\ inv.outcome.t = "data")

\* C30: after any sequence of agent queries the query history holds at most
\* 10 entries, ordered newest first, and contains only queries that completed
\* successfully; a failed or timed-out query leaves the history unchanged.
C30_HistoryHoldsTheLastTenSuccesses ==
    LET done == SuccessfulQueries
        n == Len(queryHistory)
    IN  /\ n <= 10
        /\ n = Min(10, Len(done))
        /\ \A k \in 1..n :
              /\ queryHistory[k].query = done[Len(done) + 1 - k].query
              /\ queryHistory[k].results = done[Len(done) + 1 - k].outcome
              /\ k > 1 => queryHistory[k - 1].timestamp > queryHistory[k].timestamp

\* C30 witness: eleven queries succeeded and one timed out; the history holds
\* the ten newest successes.
C30_Witness ==
    /\ Len(SuccessfulQueries) = 11
    /\ \E i \in 1..Len(invs) : invs[i].outcome.t = "error"
                                 /\ invs[i].outcome.name = "AbortError"
    /\ Len(queryHistory) = 10
    /\ ~appLoading

(***************************************************************************)
(* Claims about the audit log                                              *)
(***************************************************************************)
\* logRequestDetails logs the requests that carry a bearer token on which
\* jwt.decode does not throw
IsLogged(req) ==
    /\ BearerToken(req.authorization).t = "string"
    /\ ~JwtDecodeThrows(BearerToken(req.authorization).s)

\* C19: over any sequence or interleaving of requests within one process
\* lifetime the stored audit log only grows: each logged request adds exactly
\* one entry at the end, no entry is lost under concurrent writers, and no
\* operation (including reading the log) changes, removes or reorders entries
\* already stored.
C19_AuditLogOnlyGrows ==
    [][/\ Len(authLogs') >= Len(authLogs)
       /\ SubSeq(authLogs', 1, Len(authLogs)) = authLogs
       /\ (logCall'.op = "logRequestDetails" /\ IsLogged(logCall'.req)) =>
             Len(authLogs') = Len(authLogs) + 1
       /\ (logCall'.op = "logRequestDetails" /\ ~IsLogged(logCall'.req)) =>
             authLogs' = authLogs
       /\ logCall'.op = "getAuthLogs" =>
             /\ authLogs' = authLogs
             /\ logCall'.result = authLogs]_vars

\* C19 witness: two requests were logged at different times and the log was
\* read then.
C19_Witness ==
    /\ logCall.op = "getAuthLogs"
    /\ Len(authLogs) = 2
    /\ authLogs[1].timestamp < authLogs[2].timestamp
    /\ logCall.result = authLogs

\* C20: the audit-log read operation returns all stored entries ordered by
\* timestamp descending (newest first) to any caller holding a valid token.
C20_ReadReturnsNewestFirst ==
    logCall.op = "getAuthLogs" =>
        /\ Len(logCall.result) = Len(authLogs)
        /\ \A i \in 1..Len(authLogs) :
              \E j \in 1..Len(logCall.result) : logCall.result[j] = authLogs[i]
        /\ \A i, j \in 1..Len(logCall.result) :
              i < j => logCall.result[i].timestamp >= logCall.result[j].timestamp

\* C29: in every token-store state reachable by saveTokens and clearToken with
\* any argument, hasToken() returns true exactly when getToken() would return
\* a token rather than fail, and hasToken() never throws.
C29_HasTokenAgreesWithGetToken ==
    /\ HasToken(tokens).t = "return"
    /\ HasToken(tokens) = Returned(TRUE) <=> GetToken(tokens).t = "return"

\* the five tools and the schema each one's case block parses with
FormTools ==
    {"search_patient_pools", "get_demographics_by_region", "search_sites",
     "get_site_capabilities", "get_enrollment_history"}

SchemaOfTool(name) ==
    CASE name = "search_patient_pools" -> SearchPatientPoolsSchema
      [] name = "get_demographics_by_region" -> GetDemographicsByRegionSchema
      [] name = "search_sites" -> SearchSitesSchema
      [] name = "get_site_capabilities" -> GetSiteCapabilitiesSchema
      [] name = "get_enrollment_history" -> GetEnrollmentHistorySchema

\* the latest handler run is a call of one of the five tools, on its own
\* server, with the arguments of a filled form
IsFilledFormCall ==
    /\ toolRun.method = "tools/call"
    /\ toolRun.name \in FormTools
    /\ toolRun.server = (IF toolRun.name \in {"search_patient_pools",
                                              "get_demographics_by_region"}
                         THEN "patient-demographics" ELSE "site-performance")
    /\ IsFilledForm(toolRun.name, toolRun.args)

\* C27: for each of the five tools, the argument names the form sends are the
\* names the tool's schema expects: a filled form passes validation and every
\* field it shows reaches the tool function.
C27_FormNamesAreSchemaNames ==
    IsFilledFormCall =>
        LET parsed == ZodParse(SchemaOfTool(toolRun.name), toolRun.args)
        IN  /\ parsed.t = "return"
            /\ "isError" \notin DOMAIN toolRun.response.value
            /\ \A p \in GetToolParameters(toolRun.name) :
                  p.name \in DOMAIN parsed.value.fields

(***************************************************************************)
(* Claims about disconnecting                                              *)
(***************************************************************************)
\* C26: no client is removed from the connection map without being closed,
\* under any interleaving of disconnectAll with getClient calls that are
\* still connecting: an entry that a step deletes holds a client on which
\* close() has been called.
C26_RemovedClientsWereClosed ==
    [][\A u \in ServerUrls :
          (clients[u] # 0 /\ clients'[u] = 0) => clients[u] \in closeCalls']_vars

\* the disconnect invocations that finish in a step
FinishedClosers ==
    {k \in 1..Len(closers') :
        /\ closers'[k].pc = "done"
        /\ (k > Len(closers) \/ closers[k].pc # "done")}

\* C28: when disconnect(serverUrl) finishes, whether close() succeeded or
\* threw, isConnected(serverUrl) is false and the other URLs are as before;
\* when disconnectAll finishes, isConnected is false for every URL even when
\* some close() threw.
C28_DisconnectLeavesUrlUnconnected ==
    [][\A k \in FinishedClosers :
          IF closers'[k].kind = "disconnect"
          THEN /\ clients'[closers'[k].url] = 0
               /\ \A u \in ServerUrls \ {closers'[k].url} : clients'[u] = clients[u]
          ELSE \A u \in ServerUrls : clients'[u] = 0]_vars

(***************************************************************************)
(* Claims about the server controls                                        *)
(***************************************************************************)
\* C24: the tool list and the panelResult shown always belong to the currently
\* active server: a response for a previously active server is never shown
\* under the new one.
C24_ShownToolsAndResultBelongToActiveServer ==
    /\ availableTools.tools # {} => availableTools.server = activeServer
    /\ panelResult # JsNull => panelResult.server = activeServer

====
